---- MODULE Spec2Model ----
(***************************************************************************)
(* Model of common/util/FontUtils.cpp: the GameTextFontBank transcoder      *)
(* between display text (UTF-8) and the game's font encoding.               *)
(*                                                                         *)
(* Text and byte buffers are sequences of byte values 0..255.  A rule of    *)
(* the encode table is a record [chars, bytes] (EncodeInfo), a rule of the  *)
(* replace table a record [from, to] (ReplaceInfo).  A resolver returns     *)
(* the 1-based position of the rule it selects in its table, 0 for nullptr. *)
(* Offsets into strings are 0-based, as in the source.                      *)
(***************************************************************************)
EXTENDS Integers, Sequences, FiniteSets

VARIABLES
  pc,              \* the caller: "new", "ready" (bank constructed), "called", "chained",
                   \* "destroyed"
  m_version,       \* GameTextFontBank::m_version
  m_encode_info,   \* *GameTextFontBank::m_encode_info
  m_replace_info,  \* *GameTextFontBank::m_replace_info
  m_passthrus,     \* *GameTextFontBank::m_passthrus
  seqs,            \* the file-level accumulator `seqs`
  g_font_banks,    \* g_font_banks: the bank registered for each version
  op,              \* the operation that ran last
  arg,             \* its arguments [str, off, flag]
  ret,             \* its outcome [err, str, rule, ok]
  orig             \* the arguments of the call whose result was fed to the last call

vars ==
  <<pc, m_version, m_encode_info, m_replace_info, m_passthrus, seqs, g_font_banks, op, arg, ret, orig>>

bank == <<m_version, m_encode_info, m_replace_info, m_passthrus>>

-----------------------------------------------------------------------------
(* Character values the code names.                                        *)
QUOTE == 34
BACKSLASH == 92
CHAR_c == 99
CHAR_n == 110
CHAR_t == 116
NEWLINE == 10
TAB == 9
CHAR_0 == 48
CHAR_9 == 57
CHAR_A == 65
CHAR_F == 70
CHAR_Z == 90
CHAR_a == 97
CHAR_f == 102
CHAR_z == 122

JAK1_V1 == "jak1-v1"
JAK1_V2 == "jak1-v2"
JAK2 == "jak2"
GameTextVersion == {JAK1_V1, JAK1_V2, JAK2}

(* The messages of the std::runtime_error thrown by convert_utf8_to_game.   *)
OK == "ok"
INCOMPLETE_ESCAPE == "incomplete string escape code"
INVALID_HEX == "invalid character escape hex number"
INVALID_ESCAPE_VALUE == "invalid character escape"
UNKNOWN_ESCAPE == "unknown string escape code"

-----------------------------------------------------------------------------
(* std::string::at(i), 0-based.                                             *)
at(s, i) == s[i + 1]

(* mem is the memory a C string pointer points into: the string's bytes,    *)
(* its terminator and whatever the caller's buffer holds after it.          *)
peek(mem, p) == IF p < Len(mem) THEN mem[p + 1] ELSE 0

substr(s, from, n) == SubSeq(s, from + 1, from + n)

(* A std::string built from a C string: the bytes up to the first zero.     *)
RECURSIVE strlen_from(_, _)
strlen_from(mem, p) == IF peek(mem, p) = 0 THEN 0 ELSE 1 + strlen_from(mem, p + 1)

c_str(s) == SubSeq(s, 1, strlen_from(s, 0))

-----------------------------------------------------------------------------
(* The four resolvers.                                                      *)

(* lines 445-450: every byte of the rule equals the byte of the input.      *)
encode_to_utf8_found(info, mem, p) ==
  \A i \in 0..(Len(info.bytes) - 1) : peek(mem, p + i) = at(info.bytes, i)

(* line 452: the test that replaces best_info.                              *)
encode_to_utf8_better(tab, info, best) ==
  best = 0 \/ Len(info.chars) > Len(tab[best].chars)

RECURSIVE find_encode_to_utf8_scan(_, _, _, _, _)
find_encode_to_utf8_scan(tab, mem, p, k, best) ==
  IF k > Len(tab) THEN best
  ELSE LET info == tab[k] IN
       IF Len(info.bytes) = 0
       THEN find_encode_to_utf8_scan(tab, mem, p, k + 1, best)
       ELSE IF encode_to_utf8_found(info, mem, p) /\ encode_to_utf8_better(tab, info, best)
            THEN find_encode_to_utf8_scan(tab, mem, p, k + 1, k)
            ELSE find_encode_to_utf8_scan(tab, mem, p, k + 1, best)

find_encode_to_utf8(tab, mem, p) == find_encode_to_utf8_scan(tab, mem, p, 1, 0)

(* lines 468-473: the comparison loop stops at the end of the rule or at    *)
(* the end of the input, whichever comes first.                             *)
encode_to_game_found(info, str, off) ==
  \A i \in 0..(Len(info.chars) - 1) :
     i + off < Len(str) => at(str, i + off) = at(info.chars, i)

(* line 475 *)
encode_to_game_better(tab, info, best) ==
  best = 0 \/ Len(info.chars) > Len(tab[best].chars)

RECURSIVE find_encode_to_game_scan(_, _, _, _, _)
find_encode_to_game_scan(tab, str, off, k, best) ==
  IF k > Len(tab) THEN best
  ELSE LET info == tab[k] IN
       IF Len(info.chars) = 0
       THEN find_encode_to_game_scan(tab, str, off, k + 1, best)
       ELSE IF encode_to_game_found(info, str, off) /\ encode_to_game_better(tab, info, best)
            THEN find_encode_to_game_scan(tab, str, off, k + 1, k)
            ELSE find_encode_to_game_scan(tab, str, off, k + 1, best)

find_encode_to_game(tab, str, off) == find_encode_to_game_scan(tab, str, off, 1, 0)

(* line 491: memcmp(in.data() + off, info.from.data(), info.from.size())    *)
memcmp_eq(str, off, pat) == substr(str, off, Len(pat)) = pat

(* line 492 *)
replace_to_utf8_better(tab, info, best) ==
  best = 0 \/ Len(info.from) > Len(tab[best].from)

RECURSIVE find_replace_to_utf8_scan(_, _, _, _, _)
find_replace_to_utf8_scan(tab, str, off, k, best) ==
  IF k > Len(tab) THEN best
  ELSE LET info == tab[k] IN
       IF Len(info.from) = 0 \/ Len(str) - off < Len(info.from)
       THEN find_replace_to_utf8_scan(tab, str, off, k + 1, best)
       ELSE IF memcmp_eq(str, off, info.from) /\ replace_to_utf8_better(tab, info, best)
            THEN find_replace_to_utf8_scan(tab, str, off, k + 1, k)
            ELSE find_replace_to_utf8_scan(tab, str, off, k + 1, best)

find_replace_to_utf8(tab, str, off) == find_replace_to_utf8_scan(tab, str, off, 1, 0)

(* Mutant: the first rule that matches is kept.                             *)
replace_to_game_first(tab, info, best) ==
  best = 0

(* line 509 *)
replace_to_game_better(tab, info, best) ==
  best = 0 \/ Len(info.to) > Len(tab[best].to)

RECURSIVE find_replace_to_game_scan(_, _, _, _, _)
find_replace_to_game_scan(tab, str, off, k, best) ==
  IF k > Len(tab) THEN best
  ELSE LET info == tab[k] IN
       IF Len(info.to) = 0 \/ Len(str) - off < Len(info.to)
       THEN find_replace_to_game_scan(tab, str, off, k + 1, best)
       ELSE IF memcmp_eq(str, off, info.to) /\ replace_to_game_better(tab, info, best)
            THEN find_replace_to_game_scan(tab, str, off, k + 1, k)
            ELSE find_replace_to_game_scan(tab, str, off, k + 1, best)

find_replace_to_game(tab, str, off) == find_replace_to_game_scan(tab, str, off, 1, 0)

-----------------------------------------------------------------------------
(* The match stages: one left-to-right pass each.                           *)

RECURSIVE replace_to_utf8_loop(_, _, _, _)
replace_to_utf8_loop(tab, str, i, newstr) ==
  IF ~(i < Len(str)) THEN newstr
  ELSE LET remap == find_replace_to_utf8(tab, str, i) IN
       IF remap = 0
       THEN replace_to_utf8_loop(tab, str, i + 1, Append(newstr, at(str, i)))
       ELSE replace_to_utf8_loop(tab, str, i + Len(tab[remap].from), newstr \o tab[remap].to)

replace_to_utf8(tab, str) == replace_to_utf8_loop(tab, str, 0, <<>>)

RECURSIVE replace_to_game_loop(_, _, _, _)
replace_to_game_loop(tab, str, i, newstr) ==
  IF ~(i < Len(str)) THEN newstr
  ELSE LET remap == find_replace_to_game(tab, str, i) IN
       IF remap = 0
       THEN replace_to_game_loop(tab, str, i + 1, Append(newstr, at(str, i)))
       ELSE replace_to_game_loop(tab, str, i + Len(tab[remap].to), newstr \o tab[remap].from)

replace_to_game(tab, str) == replace_to_game_loop(tab, str, 0, <<>>)

RECURSIVE encode_utf8_to_game_loop(_, _, _, _)
encode_utf8_to_game_loop(tab, str, i, newstr) ==
  IF ~(i < Len(str)) THEN newstr
  ELSE LET remap == find_encode_to_game(tab, str, i) IN
       IF remap = 0
       THEN encode_utf8_to_game_loop(tab, str, i + 1, Append(newstr, at(str, i)))
       ELSE encode_utf8_to_game_loop(tab, str, i + Len(tab[remap].chars), newstr \o tab[remap].bytes)

encode_utf8_to_game(tab, str) == encode_utf8_to_game_loop(tab, str, 0, <<>>)

-----------------------------------------------------------------------------
(* Escape interpretation of convert_utf8_to_game.                           *)

IsDigit(ch) == ch >= CHAR_0 /\ ch <= CHAR_9
IsUpper(ch) == ch >= CHAR_A /\ ch <= CHAR_Z
IsLower(ch) == ch >= CHAR_a /\ ch <= CHAR_z

(* str_util::hex_char: whether ch is one of 0-9, a-f, A-F.                  *)
hex_char(ch) ==
  IsDigit(ch) \/ (ch >= CHAR_a /\ ch <= CHAR_f) \/ (ch >= CHAR_A /\ ch <= CHAR_F)

hex_digit_value(ch) ==
  IF IsDigit(ch) THEN ch - CHAR_0
  ELSE IF ch >= CHAR_a /\ ch <= CHAR_f THEN ch - CHAR_a + 10
  ELSE ch - CHAR_A + 10

(* std::stoul(hex_num, &end, 16) on the two characters first, second, of    *)
(* which first is a hexadecimal digit: the value of the longest prefix of   *)
(* hexadecimal digits, and the number of characters it converted.           *)
stoul(first, second) ==
  IF hex_char(second)
  THEN [value |-> 16 * hex_digit_value(first) + hex_digit_value(second), end |-> 2]
  ELSE [value |-> hex_digit_value(first), end |-> 1]

(* One iteration of the loop of lines 591-629 at index i: the error it      *)
(* throws, the text it appends to newstr and the index of the next          *)
(* iteration (the ++i of the for statement included).                       *)
throw(e) == [err |-> e, emit |-> <<>>, next |-> 0]

(* Mutant: the hex escape advances by three characters instead of four.     *)
escape_step_short(str, i) ==
  LET c == at(str, i) IN
  IF c = QUOTE
  THEN [err |-> OK, emit |-> <<QUOTE>>, next |-> (i + 1) + 1]
  ELSE IF c = BACKSLASH
  THEN IF i + 1 >= Len(str)
       THEN throw(INCOMPLETE_ESCAPE)
       ELSE LET p == at(str, i + 1) IN
            IF p = CHAR_c
            THEN IF i + 3 >= Len(str)
                 THEN throw(INCOMPLETE_ESCAPE)
                 ELSE LET first == at(str, i + 2)
                          second == at(str, i + 3)
                      IN IF ~hex_char(first) \/ ~hex_char(second)
                         THEN throw(INVALID_HEX)
                         ELSE LET n == stoul(first, second) IN
                              IF n.end # 2
                              THEN throw(INVALID_ESCAPE_VALUE)
                              ELSE [err |-> OK, emit |-> <<n.value>>, next |-> (i + 2) + 1]
            ELSE IF p = QUOTE \/ p = BACKSLASH
                 THEN [err |-> OK, emit |-> <<p>>, next |-> (i + 1) + 1]
                 ELSE throw(UNKNOWN_ESCAPE)
  ELSE [err |-> OK, emit |-> <<c>>, next |-> i + 1]

escape_step(str, i) ==
  LET c == at(str, i) IN
  IF c = QUOTE
  THEN [err |-> OK, emit |-> <<QUOTE>>, next |-> (i + 1) + 1]
  ELSE IF c = BACKSLASH
  THEN IF i + 1 >= Len(str)
       THEN throw(INCOMPLETE_ESCAPE)
       ELSE LET p == at(str, i + 1) IN
            IF p = CHAR_c
            THEN IF i + 3 >= Len(str)
                 THEN throw(INCOMPLETE_ESCAPE)
                 ELSE LET first == at(str, i + 2)
                          second == at(str, i + 3)
                      IN IF ~hex_char(first) \/ ~hex_char(second)
                         THEN throw(INVALID_HEX)
                         ELSE LET n == stoul(first, second) IN
                              IF n.end # 2
                              THEN throw(INVALID_ESCAPE_VALUE)
                              ELSE [err |-> OK, emit |-> <<n.value>>, next |-> (i + 3) + 1]
            ELSE IF p = QUOTE \/ p = BACKSLASH
                 THEN [err |-> OK, emit |-> <<p>>, next |-> (i + 1) + 1]
                 ELSE throw(UNKNOWN_ESCAPE)
  ELSE [err |-> OK, emit |-> <<c>>, next |-> i + 1]

RECURSIVE escape_loop(_, _, _)
escape_loop(str, i, newstr) ==
  IF ~(i < Len(str)) THEN [err |-> OK, str |-> newstr]
  ELSE LET s == escape_step(str, i) IN
       IF s.err # OK THEN [err |-> s.err, str |-> <<>>]
       ELSE escape_loop(str, s.next, newstr \o s.emit)

(* lines 590-632: newstr before the match stages.                           *)
unescape(str, escape) ==
  IF escape THEN escape_loop(str, 0, <<>>) ELSE [err |-> OK, str |-> str]

(* The value convert_utf8_to_game returns, or the error it throws.          *)
convert_utf8_to_game(enc, rep, str, escape) ==
  LET u == unescape(str, escape) IN
  IF u.err # OK THEN [err |-> u.err, str |-> <<>>]
  ELSE [err |-> OK, str |-> encode_utf8_to_game(enc, replace_to_game(rep, u.str))]

-----------------------------------------------------------------------------
(* The validity policy.                                                     *)

(* Mutant: a backslash of the passthrough set is accepted.                  *)
valid_char_range_passthru(version, passthrus, ch) ==
  IF version = JAK1_V1 \/ version = JAK1_V2
  THEN IsDigit(ch) \/ IsUpper(ch) \/ ch \in passthrus
  ELSE IF version = JAK2
  THEN IsDigit(ch) \/ IsUpper(ch) \/ IsLower(ch) \/ ch \in passthrus
  ELSE FALSE

(* Mutant: lowercase letters are accepted in every version.                 *)
valid_char_range_lowercase(version, passthrus, ch) ==
  IF version \in {JAK1_V1, JAK1_V2, JAK2}
  THEN (IsDigit(ch) \/ IsUpper(ch) \/ IsLower(ch) \/ ch \in passthrus) /\ ch # BACKSLASH
  ELSE FALSE

valid_char_range(version, passthrus, ch) ==
  IF version = JAK1_V1 \/ version = JAK1_V2
  THEN (IsDigit(ch) \/ IsUpper(ch) \/ ch \in passthrus) /\ ch # BACKSLASH
  ELSE IF version = JAK2
  THEN (IsDigit(ch) \/ IsUpper(ch) \/ IsLower(ch) \/ ch \in passthrus) /\ ch # BACKSLASH
  ELSE FALSE

-----------------------------------------------------------------------------
(* The script pre-pass, convert_korean_text_from_game.  Its state is the    *)
(* read pointer p into mem, the output out, the accumulator sq and oob,     *)
(* which records whether a byte behind the terminator of the C string was   *)
(* read.  A value of the u64 `seq` is the sequence of its 16-bit fields,    *)
(* lowest first, up to the highest field that was written.  The element     *)
(* with index i is shifted by i*16 bits (lines 333, 338); for i >= 4 the    *)
(* shift is by 64 bits or more, which C++ leaves undefined: the x86-64      *)
(* build takes the count modulo 64 at every optimisation level, so the      *)
(* element is ORed into field i mod 4.                                      *)

MARK_LITERAL == 3
MARK_END == 4
MARK_ALT == 5
TIER_ALT == 1
TIER_BASE == 3
SEQ_ALT == 256
SEQ_BASE == 768
SEQ_FIELDS == 4

terminator(mem) == strlen_from(mem, 0)

run_ends(ch) == ch = 0 \/ ch = MARK_LITERAL \/ ch = MARK_END

(* Mutant: a literal run is not ended by the byte 4.                        *)
RECURSIVE korean_literal_run_through(_, _, _, _)
korean_literal_run_through(mem, p, out, oob) ==
  IF peek(mem, p) = 0 \/ peek(mem, p) = MARK_LITERAL
  THEN [p |-> p, out |-> out, oob |-> oob \/ p > terminator(mem)]
  ELSE korean_literal_run_through(mem, p + 1, Append(out, peek(mem, p)),
                                  oob \/ p > terminator(mem))

(* lines 318-321 *)
RECURSIVE korean_literal_run(_, _, _, _)
korean_literal_run(mem, p, out, oob) ==
  IF run_ends(peek(mem, p))
  THEN [p |-> p, out |-> out, oob |-> oob \/ p > terminator(mem)]
  ELSE korean_literal_run(mem, p + 1, Append(out, peek(mem, p)), oob \/ p > terminator(mem))

(* The bitwise OR of two naturals.                                          *)
RECURSIVE bit_or(_, _)
bit_or(a, b) ==
  IF a = 0 THEN b
  ELSE IF b = 0 THEN a
  ELSE (IF a % 2 = 1 \/ b % 2 = 1 THEN 1 ELSE 0) + 2 * bit_or(a \div 2, b \div 2)

(* lines 333, 338: seq |= field << (i * 16), the count taken modulo 64 *)
seq_or(seq, i, field) ==
  LET k == (i % SEQ_FIELDS) + 1
      wide == IF k > Len(seq) THEN seq \o [j \in 1..(k - Len(seq)) |-> 0] ELSE seq
  IN [wide EXCEPT ![k] = bit_or(@, field)]

(* Mutant: a sub-code behind marker 5 gets the tier byte of the others.     *)
RECURSIVE korean_glyph_run_flat(_, _, _, _, _, _)
korean_glyph_run_flat(mem, p, i, seq, out, oob) ==
  IF run_ends(peek(mem, p))
  THEN [p |-> p, out |-> out, seq |-> seq, oob |-> oob \/ p > terminator(mem)]
  ELSE IF peek(mem, p) = MARK_ALT
       THEN korean_glyph_run_flat(mem, p + 2, i + 1,
                                  seq_or(seq, i, SEQ_ALT + peek(mem, p + 1)),
                                  out \o <<TIER_BASE, peek(mem, p + 1)>>,
                                  oob \/ p + 1 > terminator(mem))
       ELSE korean_glyph_run_flat(mem, p + 1, i + 1,
                                  seq_or(seq, i, SEQ_BASE + peek(mem, p)),
                                  out \o <<TIER_BASE, peek(mem, p)>>,
                                  oob \/ p > terminator(mem))

(* lines 329-345 *)
RECURSIVE korean_glyph_run(_, _, _, _, _, _)
korean_glyph_run(mem, p, i, seq, out, oob) ==
  IF run_ends(peek(mem, p))
  THEN [p |-> p, out |-> out, seq |-> seq, oob |-> oob \/ p > terminator(mem)]
  ELSE IF peek(mem, p) = MARK_ALT
       THEN korean_glyph_run(mem, p + 2, i + 1,
                             seq_or(seq, i, SEQ_ALT + peek(mem, p + 1)),
                             out \o <<TIER_ALT, peek(mem, p + 1)>>,
                             oob \/ p + 1 > terminator(mem))
       ELSE korean_glyph_run(mem, p + 1, i + 1,
                             seq_or(seq, i, SEQ_BASE + peek(mem, p)),
                             out \o <<TIER_BASE, peek(mem, p)>>,
                             oob \/ p > terminator(mem))

(* The order of two u64 values given by their fields.                       *)
RECURSIVE seq_less(_, _)
seq_less(a, b) ==
  IF Len(a) # Len(b) THEN Len(a) < Len(b)
  ELSE IF Len(a) = 0 THEN FALSE
  ELSE IF a[Len(a)] # b[Len(b)] THEN a[Len(a)] < b[Len(b)]
  ELSE seq_less(SubSeq(a, 1, Len(a) - 1), SubSeq(b, 1, Len(b) - 1))

(* line 346: std::find(seqs.begin(), seqs.end(), seq) == seqs.end() *)
seqs_lacks(sq, seq) == ~\E k \in 1..Len(sq) : sq[k] = seq

(* lines 347-348: push_back, then std::sort of a vector that was sorted.    *)
seqs_push(sq, seq) ==
  LET less == SelectSeq(sq, LAMBDA x : seq_less(x, seq))
      more == SelectSeq(sq, LAMBDA x : ~seq_less(x, seq))
  IN less \o <<seq>> \o more

(* lines 346-349: push_back unless present, then std::sort.                 *)
seqs_insert(sq, seq) == IF seqs_lacks(sq, seq) THEN seqs_push(sq, seq) ELSE sq

RECURSIVE korean_loop(_, _, _, _, _)
korean_loop(mem, p, out, sq, oob) ==
  IF peek(mem, p) = 0
  THEN [out |-> out, seqs |-> sq, oob |-> oob \/ p > terminator(mem)]
  ELSE IF peek(mem, p) = MARK_LITERAL
       THEN LET r == korean_literal_run(mem, p + 1, out, oob \/ p > terminator(mem)) IN
            korean_loop(mem, r.p, r.out, sq, r.oob)
       ELSE LET r == korean_glyph_run(mem, p + 2, 0, <<>>, out, oob \/ p + 1 > terminator(mem)) IN
            korean_loop(mem, r.p, r.out, seqs_insert(sq, r.seq), r.oob)

(* The values of `seq` the glyph runs of mem reach line 346 with, in order.  *)
RECURSIVE korean_runs(_, _, _)
korean_runs(mem, p, runs) ==
  IF peek(mem, p) = 0 THEN runs
  ELSE IF peek(mem, p) = MARK_LITERAL
       THEN korean_runs(mem, korean_literal_run(mem, p + 1, <<>>, FALSE).p, runs)
       ELSE LET r == korean_glyph_run(mem, p + 2, 0, <<>>, <<>>, FALSE) IN
            korean_runs(mem, r.p, Append(runs, r.seq))

(* The first read of the loop behind the last byte of mem, if there is one, *)
(* and the accumulator at that read: the runs before have passed lines      *)
(* 346-349, the run that makes the read has not.  Every byte from the one   *)
(* the iteration begins with to the one that ends its run is read (lines    *)
(* 315-318, 323-325, 329-344).                                              *)
RECURSIVE korean_over_read(_, _, _)
korean_over_read(mem, p, sq) ==
  IF peek(mem, p) = 0 THEN [reached |-> FALSE, seqs |-> sq]
  ELSE IF peek(mem, p) = MARK_LITERAL
       THEN LET r == korean_literal_run(mem, p + 1, <<>>, FALSE) IN
            IF r.p >= Len(mem) THEN [reached |-> TRUE, seqs |-> sq]
            ELSE korean_over_read(mem, r.p, sq)
       ELSE LET r == korean_glyph_run(mem, p + 2, 0, <<>>, <<>>, FALSE) IN
            IF r.p >= Len(mem) THEN [reached |-> TRUE, seqs |-> sq]
            ELSE korean_over_read(mem, r.p, seqs_insert(sq, r.seq))

(* Mutant: the zero sequence is recorded on every call.                     *)
convert_korean_text_from_game_eager(mem, sq) ==
  LET r == korean_loop(mem, 0, <<>>, sq, FALSE) IN [r EXCEPT !.seqs = seqs_insert(r.seqs, <<>>)]

convert_korean_text_from_game(mem, sq) == korean_loop(mem, 0, <<>>, sq, FALSE)

-----------------------------------------------------------------------------
(* The reverse transcoder, convert_game_to_utf8.                            *)

hex_lower(d) == IF d < 10 THEN CHAR_0 + d ELSE CHAR_a + (d - 10)

(* fmt::format("\\c{:02x}", uint8_t(ch)) *)
format_escape(ch) == <<BACKSLASH, CHAR_c, hex_lower(ch \div 16), hex_lower(ch % 16)>>

(* One iteration of the loop of lines 665-676 at byte p: the rule that      *)
(* matched (0: none), the text appended to temp and the next p.             *)
decode_step(enc, version, passthrus, mem, p) ==
  LET ch == peek(mem, p)
      remap == find_encode_to_utf8(enc, mem, p)
  IN IF remap # 0
     THEN [rule |-> remap, emit |-> enc[remap].chars, next |-> p + (Len(enc[remap].bytes) - 1) + 1]
     ELSE IF valid_char_range(version, passthrus, ch) \/ ch = NEWLINE \/ ch = TAB
             \/ ch = BACKSLASH \/ ch = QUOTE
          THEN [rule |-> 0, emit |-> <<ch>>, next |-> p + 1]
          ELSE [rule |-> 0, emit |-> format_escape(ch), next |-> p + 1]

(* lines 665-676 *)
RECURSIVE decode_loop(_, _, _, _, _, _)
decode_loop(enc, version, passthrus, mem, p, temp) ==
  IF peek(mem, p) = 0 THEN temp
  ELSE LET s == decode_step(enc, version, passthrus, mem, p) IN
       decode_loop(enc, version, passthrus, mem, s.next, temp \o s.emit)

(* Mutant: a double quote is appended without a backslash.                  *)
emit_step_bare_quote(temp, i) ==
  LET c == at(temp, i) IN
  IF c = NEWLINE THEN <<BACKSLASH, CHAR_n>>
  ELSE IF c = TAB THEN <<BACKSLASH, CHAR_t>>
  ELSE IF c = BACKSLASH
       THEN IF i < Len(temp) - 1 /\ at(temp, i + 1) = CHAR_c
            THEN <<c>>
            ELSE <<BACKSLASH, BACKSLASH>>
  ELSE <<c>>

(* One iteration of the loop of lines 681-698: what character i of temp     *)
(* appends to result.                                                       *)
emit_step(temp, i) ==
  LET c == at(temp, i) IN
  IF c = NEWLINE THEN <<BACKSLASH, CHAR_n>>
  ELSE IF c = TAB THEN <<BACKSLASH, CHAR_t>>
  ELSE IF c = BACKSLASH
       THEN IF i < Len(temp) - 1 /\ at(temp, i + 1) = CHAR_c
            THEN <<c>>
            ELSE <<BACKSLASH, BACKSLASH>>
  ELSE IF c = QUOTE THEN <<BACKSLASH, QUOTE>>
  ELSE <<c>>

(* lines 681-698 *)
RECURSIVE emit_loop(_, _, _)
emit_loop(temp, i, result) ==
  IF ~(i < Len(temp)) THEN result
  ELSE emit_loop(temp, i + 1, result \o emit_step(temp, i))

(* The string convert_game_to_utf8 returns, the accumulator it leaves and   *)
(* whether the pre-pass read behind the terminator of `mem`.                *)
convert_game_to_utf8(enc, rep, version, passthrus, sq, mem, korean) ==
  LET pre == IF korean THEN convert_korean_text_from_game(mem, sq)
                       ELSE [out |-> mem, seqs |-> sq, oob |-> FALSE]
      temp == decode_loop(enc, version, passthrus, pre.out, 0, <<>>)
      expanded == replace_to_utf8(rep, temp)
      result == emit_loop(expanded, 0, <<>>)
  IN [str |-> replace_to_utf8(rep, result), seqs |-> pre.seqs, oob |-> pre.oob]

-----------------------------------------------------------------------------
(* The font banks of the file.  Each table holds, in the order of the file, *)
(* the rules of the file's table that a stage selects on the inputs of this *)
(* development: on these inputs the three banks of the file and the banks   *)
(* below return the same rule at every step.  The file's tables hold 199,   *)
(* 201 and 669 encode rules and 95 and 133 replace rules.  Byte 0x61 is an  *)
(* input of SpecReverse alone, whose banks (ReverseBanks) hold in addition  *)
(* the rule it selects in the tables of jak1-v1 and jak1-v2.                *)

s_passthrus_jak1 ==
  {126, 32, 44, 46, 45, 43, 40, 41, 33, 58, 63, 61, 37, 42, 47, 35, 59, 60, 62, 64, 91, 95}

s_passthrus_jak2 == s_passthrus_jak1 \cup {93}

TIL == <<60, 84, 73, 76, 62>>                \* "<TIL>"
N_TILDE == <<195, 145>>                      \* U+00D1
N_TILDE_GAME ==                              \* "N~Y~-22H~-4V<TIL>~Z"
  <<78, 126, 89, 126, 45, 50, 50, 72, 126, 45, 52, 86>> \o TIL \o <<126, 90>>
FLAG_PART_KOREA_TRIGRAMS_RIGHT ==            \* "<FLAG_PART_KOREA_TRIGRAMS_RIGHT>"
  <<60, 70, 76, 65, 71, 95, 80, 65, 82, 84, 95, 75, 79, 82, 69, 65, 95, 84,
    82, 73, 71, 82, 65, 77, 83, 95, 82, 73, 71, 72, 84, 62>>

s_encode_info_jak1 ==
  << [chars |-> TIL, bytes |-> <<20>>],                     \* {"<TIL>", {0x14}}
     [chars |-> <<229, 178, 169>>, bytes |-> <<92>>],       \* U+5CA9, {0x5c}
     [chars |-> <<230, 185, 150>>, bytes |-> <<99>>],       \* U+6E56, {0x63}
     [chars |-> <<226, 132, 162>>, bytes |-> <<1, 177>>] >> \* trademark, {1, 0xb1}

s_encode_info_jak1_v2 ==
  << [chars |-> <<95>>, bytes |-> <<3>>] >> \o s_encode_info_jak1   \* {"_", {0x03}}

s_replace_info_jak1 ==
  << [from |-> N_TILDE_GAME, to |-> N_TILDE],
     [from |-> <<126, 126>>, to |-> <<228, 184, 150>>] >>  \* {"~~", U+4E16}

s_encode_info_jak2 ==
  << [chars |-> TIL, bytes |-> <<20>>],
     [chars |-> FLAG_PART_KOREA_TRIGRAMS_RIGHT, bytes |-> <<136>>],  \* {0x88}
     [chars |-> <<228, 186, 164>>, bytes |-> <<1, 177>>] >>          \* U+4EA4, {1, 0xb1}

s_replace_info_jak2 ==
  << [from |-> N_TILDE_GAME, to |-> N_TILDE],
     [from |-> <<BACKSLASH, BACKSLASH>>, to |-> <<126, 37>>] >>      \* two slashes, "~%"

(* The first bytes of the display patterns (chars, to) of the file's        *)
(* tables.                                                                  *)
PatternLeads ==
  {39, 44, 60, 78, 94, 95, 96, 103, 106, 112, 113, 121, 126, 194, 195, 196, 197, 203, 239}
    \cup 226..233

(* The first bytes of the byte sequences of the file's encode table for a   *)
(* version: lines 717-931, 1071-1286 and 1521-2214.  The tables of jak1-v1  *)
(* and jak1-v2 hold a rule for every lowercase letter, the table of jak2    *)
(* for none.                                                                *)
RuleLeads(version) ==
  IF version = JAK1_V1
  THEN {1} \cup (16..24) \cup (26..31) \cup {36, 38, 39} \cup (92..94) \cup (96..125)
           \cup {127} \cup (144..255)
  ELSE IF version = JAK1_V2
  THEN {1, 3} \cup (16..24) \cup (26..31) \cup {36, 38, 39} \cup (92..125)
              \cup {127} \cup (144..255)
  ELSE (1..3) \cup (16..25) \cup (29..31) \cup {94} \cup (127..172) \cup (176..179)

(* The arguments of the three constructor calls.                            *)
FontBanks ==
  { [version |-> JAK1_V1, encode_info |-> s_encode_info_jak1,
     replace_info |-> s_replace_info_jak1, passthrus |-> s_passthrus_jak1],
    [version |-> JAK1_V2, encode_info |-> s_encode_info_jak1_v2,
     replace_info |-> s_replace_info_jak1, passthrus |-> s_passthrus_jak1],
    [version |-> JAK2, encode_info |-> s_encode_info_jak2,
     replace_info |-> s_replace_info_jak2, passthrus |-> s_passthrus_jak2] }

-----------------------------------------------------------------------------
(* Bounds and input sets.                                                   *)

MaxPieces == 3
MaxEscLen == 5
MaxRules == 3
MaxStr == 3
MaxKorean == 4

Range(f) == {f[x] : x \in DOMAIN f}
Strings(alphabet, n) == UNION {[1..k -> alphabet] : k \in 0..n}

RECURSIVE Concat(_)
Concat(ss) == IF ss = <<>> THEN <<>> ELSE Head(ss) \o Concat(Tail(ss))

(* Concatenations of at most n members of pieces.                           *)
Compose(pieces, n) == {Concat(ps) : ps \in Strings(pieces, n)}

(* Display text: literals, rule names and replaced characters.              *)
TextPieces == {<<65>>, <<60>>, <<95>>, TIL, N_TILDE}
TextInputs == Compose(TextPieces, MaxPieces)

(* Display text with escapes, over backslash, c (a hex digit too), quote, n, t. *)
EscAlphabet == {BACKSLASH, CHAR_c, QUOTE, CHAR_n, CHAR_t}
EscInputs == Strings(EscAlphabet, MaxEscLen)

(* p \cXX q for every pair of hexadecimal digits whose value begins no      *)
(* display pattern of the file's tables.                                    *)
HexChars == {ch \in 0..255 : hex_char(ch)}
HexPairs ==
  {h \in HexChars \X HexChars : (16 * hex_digit_value(h[1]) + hex_digit_value(h[2])) \notin PatternLeads}
HexPrefixes == {<<>>, <<65>>}
HexSuffixes == {<<>>, TIL}
HexInputs ==
  {p \o <<BACKSLASH, CHAR_c, h[1], h[2]>> \o q :
     p \in HexPrefixes, h \in HexPairs, q \in HexSuffixes}

EscapedInputs == TextInputs \cup EscInputs \cup HexInputs

(* Game text: rule bytes, literals, control characters and markers.         *)
GamePieces ==
  {<<65>>, <<20>>, <<1, 177>>, <<126>>, <<NEWLINE>>, <<QUOTE>>, <<BACKSLASH>>, <<CHAR_c>>,
   <<MARK_END>>}
GameInputs == Compose(GamePieces, MaxPieces)

(* Game text of the script family: markers and payload bytes.               *)
KoreanAlphabet == {MARK_LITERAL, MARK_END, MARK_ALT, 65, 97}
(* A glyph run of five elements: the fifth is shifted by 64 bits.           *)
LongRun == <<65, 5, 65, 97, 65, 97, 16>>
KoreanInputs == Strings(KoreanAlphabet, MaxKorean) \cup {LongRun}

(* What the caller's buffer may hold behind the terminator.                 *)
Tails == {<<>>, <<65, 0>>, <<MARK_ALT, 0>>}

(* Script text that is decoded after the pre-pass: the payload byte 2       *)
(* begins no rule of the file's tables behind the tier bytes 1 and 3.       *)
Payloads == {2}
PAYLOAD == CHOOSE b \in Payloads : TRUE
ScriptAlphabet == {MARK_LITERAL, MARK_END, MARK_ALT, PAYLOAD}
(* A glyph run of five elements, the first behind marker 5.                 *)
LongScript == <<PAYLOAD, PAYLOAD, MARK_ALT, PAYLOAD, PAYLOAD, PAYLOAD, PAYLOAD, PAYLOAD>>
ScriptInputs == Strings(ScriptAlphabet, MaxKorean) \cup {LongScript}
ScriptTails == {<<>>, <<PAYLOAD, 0>>, <<MARK_ALT, 0>>}

NoArg == [str |-> <<>>, off |-> 0, flag |-> FALSE, tail |-> <<>>]
NoRet == [err |-> OK, str |-> <<>>, rule |-> 0, ok |-> FALSE, oob |-> FALSE]

-----------------------------------------------------------------------------
(* The state machine.                                                       *)

Init ==
  /\ pc = "new"
  /\ \E b \in FontBanks :
       /\ m_version = b.version
       /\ m_encode_info = b.encode_info
       /\ m_replace_info = b.replace_info
       /\ m_passthrus = b.passthrus
  /\ seqs = <<>>
  /\ g_font_banks = <<>>
  /\ op = "none"
  /\ arg = NoArg
  /\ ret = NoRet
  /\ orig = NoArg

Orderings(t) ==
  {u \in [1..Len(t) -> Range(t)] : \A i, j \in 1..Len(t) : i # j => u[i] # u[j]}

(* The outcomes of std::sort with the comparators of lines 365 and 368,     *)
(* a.size() > b.size(): the order of rules of equal size is unspecified.    *)
bytes_size(info) == Len(info.bytes)
from_size(info) == Len(info.from)

sort_encode_info(t) ==
  {u \in Orderings(t) : \A i, j \in 1..Len(t) : i < j => bytes_size(u[i]) >= bytes_size(u[j])}

sort_replace_info(t) ==
  {u \in Orderings(t) : \A i, j \in 1..Len(t) : i < j => from_size(u[i]) >= from_size(u[j])}

(* GameTextFontBank::GameTextFontBank *)
Construct ==
  /\ pc = "new"
  /\ pc' = "ready"
  /\ m_encode_info' \in sort_encode_info(m_encode_info)
  /\ m_replace_info' \in sort_replace_info(m_replace_info)
  /\ op' = "GameTextFontBank"
  /\ UNCHANGED <<m_version, m_passthrus, seqs, g_font_banks, arg, ret, orig>>

(* GameTextFontBank::convert_utf8_to_game(str, escape) *)
DoConvertUtf8ToGame(str, escape) ==
  /\ LET r == convert_utf8_to_game(m_encode_info, m_replace_info, str, escape) IN
       ret' = [NoRet EXCEPT !.err = r.err, !.str = r.str]
  /\ op' = "convert_utf8_to_game"
  /\ arg' = [NoArg EXCEPT !.str = str, !.flag = escape]
  /\ UNCHANGED <<bank, seqs, g_font_banks>>

ConvertUtf8ToGame ==
  /\ pc = "ready"
  /\ \E str \in TextInputs : DoConvertUtf8ToGame(str, FALSE)
  /\ pc' = "called"
  /\ orig' = NoArg

ConvertEscapedUtf8ToGame ==
  /\ pc = "ready"
  /\ \E str \in EscapedInputs : DoConvertUtf8ToGame(str, TRUE)
  /\ pc' = "called"
  /\ orig' = NoArg

(* GameTextFontBank::convert_game_to_utf8(in, korean); the caller's buffer  *)
(* holds str, the terminator and tail.  A read of the pre-pass behind the   *)
(* last byte of the buffer has no defined outcome: it finds zero bytes and  *)
(* the call returns, pc becoming `returned`, or it hits memory that is not  *)
(* mapped and the call faults at that read, before lines 346-349 of the run *)
(* that makes it.                                                           *)
DoConvertGameToUtf8(str, tail, korean, returned) ==
  /\ LET mem == str \o <<0>> \o tail
         r == convert_game_to_utf8(m_encode_info, m_replace_info, m_version, m_passthrus,
                                   seqs, mem, korean)
         fault == korean_over_read(mem, 0, seqs)
     IN \/ /\ ret' = [NoRet EXCEPT !.str = r.str, !.oob = r.oob]
           /\ seqs' = r.seqs
           /\ pc' = returned
        \/ /\ korean
           /\ fault.reached
           /\ ret' = [NoRet EXCEPT !.oob = TRUE]
           /\ seqs' = fault.seqs
           /\ pc' = "fault"
  /\ op' = "convert_game_to_utf8"
  /\ arg' = [NoArg EXCEPT !.str = str, !.flag = korean, !.tail = tail]
  /\ UNCHANGED <<bank, g_font_banks>>

ConvertGameToUtf8 ==
  /\ pc = "ready"
  /\ \E str \in GameInputs : DoConvertGameToUtf8(str, <<>>, FALSE, "called")
  /\ orig' = NoArg

ConvertKoreanToUtf8 ==
  /\ pc = "ready"
  /\ \E str \in ScriptInputs, tail \in ScriptTails :
       DoConvertGameToUtf8(str, tail, TRUE, "called")
  /\ orig' = NoArg

(* to_display_text(to_game_bytes(s, escape = false)): the bytes the last    *)
(* forward call returned, passed on as a C string.                          *)
ConvertResultToUtf8 ==
  /\ pc = "called"
  /\ op = "convert_utf8_to_game"
  /\ ~arg.flag
  /\ ret.err = OK
  /\ DoConvertGameToUtf8(c_str(ret.str), <<>>, FALSE, "chained")
  /\ orig' = arg

(* to_game_bytes(to_display_text(b), escape = true) *)
ConvertResultToGame ==
  /\ pc = "called"
  /\ op = "convert_game_to_utf8"
  /\ DoConvertUtf8ToGame(ret.str, TRUE)
  /\ pc' = "chained"
  /\ orig' = arg

(* GameTextFontBank::valid_char_range(in) *)
ValidCharRange ==
  /\ pc = "ready"
  /\ \E ch \in 0..255 :
    /\ ret' = [NoRet EXCEPT !.ok = valid_char_range(m_version, m_passthrus, ch)]
    /\ op' = "valid_char_range"
    /\ arg' = [NoArg EXCEPT !.str = <<ch>>]
    /\ pc' = "called"
    /\ orig' = NoArg
    /\ UNCHANGED <<bank, seqs, g_font_banks>>

(* GameTextFontBank::~GameTextFontBank, lines 371-434: when seqs is not      *)
(* empty its statistics are printed and it is cleared (line 432); the       *)
(* tables, which the bank does not own, stay.  The bank destroyed is the    *)
(* one of the calls, which ends them, or another bank of the program.       *)
Destruct ==
  /\ pc \in {"ready", "called", "chained"}
  /\ seqs' = IF seqs # <<>> THEN <<>> ELSE seqs
  /\ pc' \in {"ready", "destroyed"}
  /\ op' = "~GameTextFontBank"
  /\ arg' = NoArg
  /\ ret' = NoRet
  /\ orig' = NoArg
  /\ UNCHANGED <<bank, g_font_banks>>

Next ==
  \/ Construct
  \/ Destruct
  \/ ConvertUtf8ToGame
  \/ ConvertEscapedUtf8ToGame
  \/ ConvertGameToUtf8
  \/ ConvertKoreanToUtf8
  \/ ConvertResultToUtf8
  \/ ConvertResultToGame
  \/ ValidCharRange

Spec == Init /\ [][Next]_vars

-----------------------------------------------------------------------------
(* The resolvers on small tables: every table of at most MaxRules rules of  *)
(* a pool, one of the two tables being empty as s_encode_info_null and      *)
(* s_replace_info_null are.  Display text is over A, B; game bytes over 1, 2. *)

EncodePool ==
  { [chars |-> <<65>>, bytes |-> <<1>>],
    [chars |-> <<65, 66>>, bytes |-> <<2>>],
    [chars |-> <<66>>, bytes |-> <<2, 1>>],
    [chars |-> <<65, 66, 65>>, bytes |-> <<1, 2>>],
    [chars |-> <<>>, bytes |-> <<>>] }

ReplacePool ==
  { [from |-> <<65>>, to |-> <<66>>],
    [from |-> <<65, 66>>, to |-> <<66, 65>>],
    [from |-> <<65, 66, 65>>, to |-> <<65>>],
    [from |-> <<66>>, to |-> <<66, 65, 66>>],
    [from |-> <<>>, to |-> <<>>] }

(* The sequences of at most n distinct members of pool.                     *)
Tables(pool, n) ==
  {t \in Strings(pool, n) : \A i, j \in 1..Len(t) : i # j => t[i] # t[j]}

s_encode_info_null == <<>>
s_replace_info_null == <<>>

InitResolve ==
  /\ pc = "new"
  /\ m_version = JAK2
  /\ m_passthrus = s_passthrus_jak2
  /\ \/ /\ m_encode_info \in Tables(EncodePool, MaxRules)
        /\ m_replace_info = s_replace_info_null
     \/ /\ m_encode_info = s_encode_info_null
        /\ m_replace_info \in Tables(ReplacePool, MaxRules)
  /\ seqs = <<>>
  /\ g_font_banks = <<>>
  /\ op = "none"
  /\ arg = NoArg
  /\ ret = NoRet
  /\ orig = NoArg

DisplayStrings == Strings({65, 66}, MaxStr) \ {<<>>}
GameStrings == Strings({1, 2}, MaxStr) \ {<<>>}

Resolved(name, str, off, rule) ==
  /\ ret' = [NoRet EXCEPT !.rule = rule]
  /\ op' = name
  /\ arg' = [NoArg EXCEPT !.str = str, !.off = off]
  /\ pc' = "called"
  /\ orig' = NoArg
  /\ UNCHANGED <<bank, seqs, g_font_banks>>

(* find_encode_to_utf8(in): in points at byte off of the C string str.      *)
FindEncodeToUtf8 ==
  /\ pc = "ready"
  /\ \E str \in GameStrings : \E off \in 0..(Len(str) - 1) :
       Resolved("find_encode_to_utf8", str, off,
                find_encode_to_utf8(m_encode_info, str \o <<0>>, off))

FindEncodeToGame ==
  /\ pc = "ready"
  /\ \E str \in DisplayStrings : \E off \in 0..(Len(str) - 1) :
       Resolved("find_encode_to_game", str, off, find_encode_to_game(m_encode_info, str, off))

FindReplaceToUtf8 ==
  /\ pc = "ready"
  /\ \E str \in DisplayStrings : \E off \in 0..(Len(str) - 1) :
       Resolved("find_replace_to_utf8", str, off, find_replace_to_utf8(m_replace_info, str, off))

FindReplaceToGame ==
  /\ pc = "ready"
  /\ \E str \in DisplayStrings : \E off \in 0..(Len(str) - 1) :
       Resolved("find_replace_to_game", str, off, find_replace_to_game(m_replace_info, str, off))

NextResolve ==
  \/ Construct
  \/ FindEncodeToUtf8
  \/ FindEncodeToGame
  \/ FindReplaceToUtf8
  \/ FindReplaceToGame

SpecResolve == InitResolve /\ [][NextResolve]_vars

(* The match stages, one iteration of the loop at a time, on the tables of  *)
(* InitResolve: arg.str is the input of the stage, arg.off the cursor i,    *)
(* ret.str is newstr, ret.rule the rule of the last iteration and orig.off  *)
(* the cursor before it.                                                    *)
StageInputs == Strings({65, 66}, MaxStr)

BeginStage ==
  /\ pc = "ready"
  /\ \E str \in StageInputs : arg' = [NoArg EXCEPT !.str = str]
  /\ ret' = NoRet
  /\ orig' = NoArg
  /\ pc' = "stage"
  /\ UNCHANGED <<bank, seqs, g_font_banks>>

(* lines 521-523, 541-543, 561-563 *)
BeginReplaceToUtf8 ==
  /\ op' = "replace_to_utf8"
  /\ BeginStage

BeginReplaceToGame ==
  /\ op' = "replace_to_game"
  /\ BeginStage

BeginEncodeUtf8ToGame ==
  /\ op' = "encode_utf8_to_game"
  /\ BeginStage

(* One iteration: the rule remap (0 when none), its pattern and its output. *)
Iterate(remap, pattern, output) ==
  /\ pc = "stage"
  /\ arg.off < Len(arg.str)
  /\ ret' = [ret EXCEPT !.rule = remap,
                        !.str = IF remap = 0 THEN Append(ret.str, at(arg.str, arg.off))
                                ELSE ret.str \o output]
  /\ arg' = [arg EXCEPT !.off = IF remap = 0 THEN arg.off + 1 ELSE arg.off + Len(pattern)]
  /\ orig' = [orig EXCEPT !.off = arg.off]
  /\ UNCHANGED <<bank, seqs, g_font_banks, pc, op>>

(* lines 524-533 *)
ReplaceToUtf8Step ==
  /\ op = "replace_to_utf8"
  /\ LET remap == find_replace_to_utf8(m_replace_info, arg.str, arg.off) IN
       Iterate(remap,
            IF remap = 0 THEN <<>> ELSE m_replace_info[remap].from,
            IF remap = 0 THEN <<>> ELSE m_replace_info[remap].to)

(* lines 544-553 *)
ReplaceToGameStep ==
  /\ op = "replace_to_game"
  /\ LET remap == find_replace_to_game(m_replace_info, arg.str, arg.off) IN
       Iterate(remap,
            IF remap = 0 THEN <<>> ELSE m_replace_info[remap].to,
            IF remap = 0 THEN <<>> ELSE m_replace_info[remap].from)

(* lines 564-573 *)
EncodeUtf8ToGameStep ==
  /\ op = "encode_utf8_to_game"
  /\ LET remap == find_encode_to_game(m_encode_info, arg.str, arg.off) IN
       Iterate(remap,
            IF remap = 0 THEN <<>> ELSE m_encode_info[remap].chars,
            IF remap = 0 THEN <<>> ELSE m_encode_info[remap].bytes)

(* lines 536-537, 556-557, 576-577: the loop condition fails *)
StageReturn ==
  /\ pc = "stage"
  /\ ~(arg.off < Len(arg.str))
  /\ pc' = "returned"
  /\ UNCHANGED <<bank, seqs, g_font_banks, op, arg, ret, orig>>

NextStages ==
  \/ Construct
  \/ BeginReplaceToUtf8
  \/ BeginReplaceToGame
  \/ BeginEncodeUtf8ToGame
  \/ ReplaceToUtf8Step
  \/ ReplaceToGameStep
  \/ EncodeUtf8ToGameStep
  \/ StageReturn

SpecStages == InitResolve /\ [][NextStages]_vars

(* The resolvers on tables in which several rules have the same pattern.    *)
EncodeTies ==
  { [chars |-> <<65>>, bytes |-> <<1>>],
    [chars |-> <<65>>, bytes |-> <<2>>],
    [chars |-> <<66>>, bytes |-> <<1>>],
    [chars |-> <<65, 66>>, bytes |-> <<1, 2>>],
    [chars |-> <<65, 66>>, bytes |-> <<2>>] }

ReplaceTies ==
  { [from |-> <<65>>, to |-> <<66>>],
    [from |-> <<65>>, to |-> <<65>>],
    [from |-> <<66>>, to |-> <<66>>],
    [from |-> <<65, 66>>, to |-> <<66, 65>>],
    [from |-> <<66, 65>>, to |-> <<66, 65>>] }

InitTies ==
  /\ pc = "new"
  /\ m_version = JAK2
  /\ m_passthrus = s_passthrus_jak2
  /\ \/ /\ m_encode_info \in Tables(EncodeTies, MaxRules)
        /\ m_replace_info = s_replace_info_null
     \/ /\ m_encode_info = s_encode_info_null
        /\ m_replace_info \in Tables(ReplaceTies, MaxRules)
  /\ seqs = <<>>
  /\ g_font_banks = <<>>
  /\ op = "none"
  /\ arg = NoArg
  /\ ret = NoRet
  /\ orig = NoArg

SpecTies == InitTies /\ [][NextResolve]_vars

(* The validity policy for every passthrough set of a family: the set of    *)
(* the file, that set with a backslash, and the empty set.                   *)
InitPolicy ==
  /\ pc = "new"
  /\ \E b \in FontBanks :
     \E passthrus \in {b.passthrus, b.passthrus \cup {BACKSLASH}, {}} :
       /\ m_version = b.version
       /\ m_encode_info = b.encode_info
       /\ m_replace_info = b.replace_info
       /\ m_passthrus = passthrus
  /\ seqs = <<>>
  /\ g_font_banks = <<>>
  /\ op = "none"
  /\ arg = NoArg
  /\ ret = NoRet
  /\ orig = NoArg

NextPolicy ==
  \/ Construct
  \/ ValidCharRange

SpecPolicy == InitPolicy /\ [][NextPolicy]_vars

-----------------------------------------------------------------------------
(* convert_game_to_utf8(in, false) stage by stage: the decode loop one byte *)
(* position at a time (arg.off is the read position, ret.str is temp), then *)
(* the fold of line 678, the emission loop and the fold of line 699.  After *)
(* each step orig holds the text and the position the step began with.      *)

MaxBytes == 3

ReversePieces ==
  {<<65>>, <<20>>, <<1, 177>>, <<BACKSLASH>>, <<CHAR_c>>, <<QUOTE>>, <<NEWLINE>>, <<MARK_END>>}

(* Single bytes: for a bank of the file the byte 0x61 and every byte that   *)
(* begins no byte sequence of its table, for a bank without rules every     *)
(* byte.                                                                    *)
ReverseBytes ==
  IF m_encode_info = s_encode_info_null THEN 1..255
  ELSE {CHAR_a} \cup ((1..255) \ RuleLeads(m_version))

ReverseInputs == Compose(ReversePieces, MaxBytes) \cup {<<b>> : b \in ReverseBytes}

(* The rule that byte 0x61 selects in the tables of jak1-v1 and jak1-v2,    *)
(* lines 747 and 1102: {U+6483, {0x61}}.  The table of jak2 holds no rule   *)
(* for a lowercase letter.                                                  *)
s_encode_info_lower_a == << [chars |-> <<230, 146, 131>>, bytes |-> <<CHAR_a>>] >>

(* The arguments of the three constructor calls with the rules that the     *)
(* inputs of SpecReverse select.                                            *)
ReverseBanks ==
  { [b EXCEPT !.encode_info = IF b.version = JAK2 THEN @ ELSE @ \o s_encode_info_lower_a] :
      b \in FontBanks }

(* The banks of the file and, for each version, a bank constructed over the *)
(* tables without rules of lines 702 and 703.                               *)
InitReverse ==
  /\ pc = "new"
  /\ \/ \E b \in ReverseBanks :
          /\ m_version = b.version
          /\ m_encode_info = b.encode_info
          /\ m_replace_info = b.replace_info
          /\ m_passthrus = b.passthrus
     \/ /\ \E b \in FontBanks : m_version = b.version /\ m_passthrus = b.passthrus
        /\ m_encode_info = s_encode_info_null
        /\ m_replace_info = s_replace_info_null
  /\ seqs = <<>>
  /\ g_font_banks = <<>>
  /\ op = "none"
  /\ arg = NoArg
  /\ ret = NoRet
  /\ orig = NoArg

BeginReverse ==
  /\ pc = "ready"
  /\ \E str \in ReverseInputs : arg' = [NoArg EXCEPT !.str = str]
  /\ ret' = NoRet
  /\ orig' = NoArg
  /\ op' = "convert_game_to_utf8"
  /\ pc' = "decode"
  /\ UNCHANGED <<bank, seqs, g_font_banks>>

(* lines 665-676, one iteration *)
DecodeStep ==
  /\ pc = "decode"
  /\ peek(arg.str, arg.off) # 0
  /\ LET s == decode_step(m_encode_info, m_version, m_passthrus, arg.str \o <<0>>, arg.off) IN
       /\ ret' = [ret EXCEPT !.str = ret.str \o s.emit, !.rule = s.rule]
       /\ arg' = [arg EXCEPT !.off = s.next]
  /\ orig' = [NoArg EXCEPT !.str = ret.str, !.off = arg.off]
  /\ op' = "decode"
  /\ UNCHANGED <<pc, bank, seqs, g_font_banks>>

(* line 678 *)
FoldDecoded ==
  /\ pc = "decode"
  /\ peek(arg.str, arg.off) = 0
  /\ ret' = [NoRet EXCEPT !.str = replace_to_utf8(m_replace_info, ret.str)]
  /\ orig' = [NoArg EXCEPT !.str = ret.str]
  /\ op' = "replace_to_utf8"
  /\ pc' = "folded"
  /\ UNCHANGED <<arg, bank, seqs, g_font_banks>>

(* lines 681-698 *)
EmitEscapes ==
  /\ pc = "folded"
  /\ ret' = [NoRet EXCEPT !.str = emit_loop(ret.str, 0, <<>>)]
  /\ orig' = [NoArg EXCEPT !.str = ret.str]
  /\ op' = "emit"
  /\ pc' = "emitted"
  /\ UNCHANGED <<arg, bank, seqs, g_font_banks>>

(* line 699 *)
ReturnFolded ==
  /\ pc = "emitted"
  /\ ret' = [NoRet EXCEPT !.str = replace_to_utf8(m_replace_info, ret.str)]
  /\ orig' = [NoArg EXCEPT !.str = ret.str]
  /\ op' = "convert_game_to_utf8"
  /\ pc' = "returned"
  /\ UNCHANGED <<arg, bank, seqs, g_font_banks>>

NextReverse ==
  \/ Construct
  \/ BeginReverse
  \/ DecodeStep
  \/ FoldDecoded
  \/ EmitEscapes
  \/ ReturnFolded

SpecReverse == InitReverse /\ [][NextReverse]_vars

-----------------------------------------------------------------------------
(* Composites of the replace tables in context: game text X E Y, where E is *)
(* the encoded substring of a replace rule that spans several glyph codes,  *)
(* converted to display text and back.                                      *)

Affixes == {<<>>, <<65>>, <<78>>, <<60>>, <<20>>}

(* The game bytes of the encoded substring of rule r.                       *)
CompositeBytes(r) == encode_utf8_to_game(m_encode_info, r.from)

Composites == {r \in Range(m_replace_info) : Len(r.from) > 1}

ConvertCompositeToUtf8 ==
  /\ pc = "ready"
  /\ \E r \in Composites, x \in Affixes, y \in Affixes :
       DoConvertGameToUtf8(x \o CompositeBytes(r) \o y, <<>>, FALSE, "called")
  /\ orig' = NoArg

NextComposite ==
  \/ Construct
  \/ ConvertCompositeToUtf8
  \/ ConvertResultToGame

SpecComposite == Init /\ [][NextComposite]_vars

-----------------------------------------------------------------------------
(* The registry.  The three banks of the file are constructed and entered   *)
(* in g_font_banks during static initialisation; get_font_bank looks one up *)
(* by name or by version, and the bank it returns is the one the m_         *)
(* variables describe from then on.  The other specifications follow one    *)
(* bank object and leave the registry empty.                                *)

UNKNOWN_VERSION == "unknown text version"

sTextVerEnumMap ==
  [name \in {"jak1-v1", "jak1-v2", "jak2"} |->
     IF name = "jak1-v1" THEN JAK1_V1 ELSE IF name = "jak1-v2" THEN JAK1_V2 ELSE JAK2]

(* No bank was looked up yet.                                               *)
NoBank ==
  [version |-> "none", encode_info |-> s_encode_info_null,
   replace_info |-> s_replace_info_null, passthrus |-> {}]

InitRegistry ==
  /\ pc = "new"
  /\ m_version = NoBank.version
  /\ m_encode_info = NoBank.encode_info
  /\ m_replace_info = NoBank.replace_info
  /\ m_passthrus = NoBank.passthrus
  /\ seqs = <<>>
  /\ g_font_banks = <<>>
  /\ op = "none"
  /\ arg = NoArg
  /\ ret = NoRet
  /\ orig = NoArg

(* lines 1054, 1288, 2216 and 2228-2231: each constructor sorts its tables. *)
RegisterBanks ==
  /\ pc = "new"
  /\ \E e1 \in sort_encode_info(s_encode_info_jak1),
        e2 \in sort_encode_info(s_encode_info_jak1_v2),
        e3 \in sort_encode_info(s_encode_info_jak2),
        r1 \in sort_replace_info(s_replace_info_jak1),
        r3 \in sort_replace_info(s_replace_info_jak2) :
       g_font_banks' =
         [v \in GameTextVersion |->
            IF v = JAK1_V1
            THEN [version |-> v, encode_info |-> e1, replace_info |-> r1,
                  passthrus |-> s_passthrus_jak1]
            ELSE IF v = JAK1_V2
            THEN [version |-> v, encode_info |-> e2, replace_info |-> r1,
                  passthrus |-> s_passthrus_jak1]
            ELSE [version |-> v, encode_info |-> e3, replace_info |-> r3,
                  passthrus |-> s_passthrus_jak2]]
  /\ pc' = "registered"
  /\ op' = "g_font_banks"
  /\ UNCHANGED <<bank, seqs, arg, ret, orig>>

(* Mutant: an unknown name resolves to JAK2.                                *)
get_font_bank_default(name) ==
  IF name \notin DOMAIN sTextVerEnumMap
  THEN [err |-> OK, version |-> JAK2]
  ELSE [err |-> OK, version |-> sTextVerEnumMap[name]]

(* get_font_bank(name), lines 2237-2243: the error thrown, or the key of    *)
(* the bank returned.                                                       *)
get_font_bank(name) ==
  IF name \notin DOMAIN sTextVerEnumMap
  THEN [err |-> UNKNOWN_VERSION, version |-> "none"]
  ELSE [err |-> OK, version |-> sTextVerEnumMap[name]]

(* The caller now holds the bank registered for `version`.                  *)
Hold(version) ==
  /\ m_version' = g_font_banks[version].version
  /\ m_encode_info' = g_font_banks[version].encode_info
  /\ m_replace_info' = g_font_banks[version].replace_info
  /\ m_passthrus' = g_font_banks[version].passthrus

VersionNames ==
  {"jak1-v1", "jak1-v2", "jak2", "", "jak1", "jak3", "JAK2", "jak1-v3", "not-a-real-version"}

GetFontBank ==
  /\ pc \in {"registered", "ready"}
  /\ \E name \in VersionNames :
       LET r == get_font_bank(name) IN
         /\ IF r.err = OK
            THEN Hold(r.version) /\ pc' = "ready"
            ELSE UNCHANGED <<bank, pc>>
         /\ ret' = [NoRet EXCEPT !.err = r.err]
         /\ arg' = [NoArg EXCEPT !.str = name]
  /\ op' = "get_font_bank"
  /\ orig' = NoArg
  /\ UNCHANGED <<seqs, g_font_banks>>

(* get_font_bank(version), lines 2233-2235 *)
GetFontBankOfVersion ==
  /\ pc \in {"registered", "ready"}
  /\ \E version \in GameTextVersion :
       /\ Hold(version)
       /\ arg' = [NoArg EXCEPT !.str = version]
  /\ pc' = "ready"
  /\ ret' = NoRet
  /\ op' = "get_font_bank(version)"
  /\ orig' = NoArg
  /\ UNCHANGED <<seqs, g_font_banks>>

NextRegistry ==
  \/ RegisterBanks
  \/ GetFontBank
  \/ GetFontBankOfVersion
  \/ ValidCharRange

SpecRegistry == InitRegistry /\ [][NextRegistry]_vars

-----------------------------------------------------------------------------
(* Concurrent calls on one bank.  In this specification pc, op, arg and ret *)
(* are functions of the thread, and orig[t] is the progress of thread t in  *)
(* the script pre-pass: the values of `seq` it has still to pass to lines   *)
(* 346-349, whether line 346 found the first of them absent, and how it has *)
(* accessed `seqs` so far.  Nothing orders the                              *)
(* accesses of two threads to `seqs`, so a write by one and any access by   *)
(* the other are a data race, whose outcome is not defined.                 *)

Threads == {1, 2}

ThreadTexts == {<<>>, <<65>>, TIL}
ThreadBytes == {<<>>, <<MARK_END>>, <<20>>}
ThreadKorean ==
  {<<MARK_LITERAL, PAYLOAD>>, <<PAYLOAD, PAYLOAD, PAYLOAD>>,
   <<PAYLOAD, PAYLOAD, MARK_ALT, PAYLOAD>>}

UNDEFINED == "undefined behaviour"

NoProgress == [pending |-> <<>>, absent |-> FALSE, access |-> "none"]

InitThreads ==
  /\ pc = [t \in Threads |-> "idle"]
  /\ \E b \in FontBanks :
       /\ m_version = b.version
       /\ m_encode_info \in sort_encode_info(b.encode_info)
       /\ m_replace_info \in sort_replace_info(b.replace_info)
       /\ m_passthrus = b.passthrus
  /\ seqs = <<>>
  /\ g_font_banks = <<>>
  /\ op = [t \in Threads |-> "none"]
  /\ arg = [t \in Threads |-> NoArg]
  /\ ret = [t \in Threads |-> NoRet]
  /\ orig = [t \in Threads |-> NoProgress]

ThreadForward(t) ==
  /\ pc[t] = "idle"
  /\ \E str \in ThreadTexts, escape \in BOOLEAN :
       LET r == convert_utf8_to_game(m_encode_info, m_replace_info, str, escape) IN
         /\ ret' = [ret EXCEPT ![t] = [NoRet EXCEPT !.err = r.err, !.str = r.str]]
         /\ arg' = [arg EXCEPT ![t] = [NoArg EXCEPT !.str = str, !.flag = escape]]
  /\ op' = [op EXCEPT ![t] = "convert_utf8_to_game"]
  /\ pc' = [pc EXCEPT ![t] = "done"]
  /\ UNCHANGED <<bank, seqs, g_font_banks, orig>>

ThreadReverse(t) ==
  /\ pc[t] = "idle"
  /\ \E str \in ThreadBytes :
       LET r == convert_game_to_utf8(m_encode_info, m_replace_info, m_version, m_passthrus,
                                     seqs, str \o <<0>>, FALSE) IN
         /\ ret' = [ret EXCEPT ![t] = [NoRet EXCEPT !.str = r.str]]
         /\ arg' = [arg EXCEPT ![t] = [NoArg EXCEPT !.str = str]]
  /\ op' = [op EXCEPT ![t] = "convert_game_to_utf8"]
  /\ pc' = [pc EXCEPT ![t] = "done"]
  /\ UNCHANGED <<bank, seqs, g_font_banks, orig>>

(* convert_game_to_utf8(in, true) enters the pre-pass, line 661 *)
ThreadKoreanBegin(t) ==
  /\ pc[t] = "idle"
  /\ \E str \in ThreadKorean :
       /\ arg' = [arg EXCEPT ![t] = [NoArg EXCEPT !.str = str, !.flag = TRUE]]
       /\ orig' = [orig EXCEPT ![t] = [pending |-> korean_runs(str \o <<0>>, 0, <<>>),
                                       absent |-> FALSE, access |-> "none"]]
  /\ op' = [op EXCEPT ![t] = "convert_game_to_utf8"]
  /\ pc' = [pc EXCEPT ![t] = "prepass"]
  /\ UNCHANGED <<bank, seqs, g_font_banks, ret>>

(* Thread t's accesses to seqs race with those of another thread.           *)
Raced(progress, t) ==
  \E u \in Threads \ {t} :
    \/ progress[t].access = "write" /\ progress[u].access # "none"
    \/ progress[u].access = "write" /\ progress[t].access # "none"

(* seqs after the push_back of two threads ran at once (line 347): both     *)
(* reallocate, and begin and end of the vector may be left pointing into    *)
(* different buffers.  Neither its size nor its content is defined; the     *)
(* value stands for every such vector and is no vector of u64 values.       *)
INCONSISTENT == <<<<0 - 1>>>>

(* Thread t writes seqs and another thread has written it too.              *)
WriteRaced(progress, t) ==
  \E u \in Threads \ {t} : progress[t].access = "write" /\ progress[u].access = "write"

(* line 346 for the next glyph run of thread t: std::find reads seqs.  When *)
(* the value is there the run is done, else the thread goes on to line 347. *)
(* What std::find returns is not defined when the read races with a write   *)
(* of another thread: it may walk a buffer push_back has freed or std::sort *)
(* is moving values in, and report a value present that seqs never held or  *)
(* absent that it holds.                                                    *)
ThreadFindSeq(t) ==
  /\ pc[t] = "prepass"
  /\ orig[t].pending # <<>>
  /\ ~orig[t].absent
  /\ \E lacks \in BOOLEAN :
       LET progress == [orig EXCEPT ![t] =
                          [pending |-> IF lacks THEN orig[t].pending ELSE Tail(orig[t].pending),
                           absent |-> lacks,
                           access |-> IF orig[t].access = "write" THEN "write" ELSE "read"]]
       IN /\ (\A u \in Threads \ {t} : orig[u].access # "write")
               => lacks = seqs_lacks(seqs, Head(orig[t].pending))
          /\ orig' = progress
  /\ UNCHANGED <<bank, seqs, g_font_banks, pc, op, arg, ret>>

(* lines 347-348 for thread t, which did not find the value at line 346:    *)
(* push_back and std::sort write seqs, whatever another thread has pushed   *)
(* since.  In a race the update may also be lost, and when both threads     *)
(* write, the vector may be left inconsistent; it then stays so.            *)
ThreadRecordSeq(t) ==
  /\ pc[t] = "prepass"
  /\ orig[t].pending # <<>>
  /\ orig[t].absent
  /\ LET seq == Head(orig[t].pending)
         progress == [orig EXCEPT ![t] =
                        [pending |-> Tail(orig[t].pending), absent |-> FALSE,
                         access |-> "write"]]
     IN /\ orig' = progress
        /\ IF seqs = INCONSISTENT
           THEN seqs' = INCONSISTENT
           ELSE IF WriteRaced(progress, t)
           THEN seqs' \in {seqs_push(seqs, seq), seqs, INCONSISTENT}
           ELSE IF Raced(progress, t)
           THEN seqs' \in {seqs_push(seqs, seq), seqs}
           ELSE seqs' = seqs_push(seqs, seq)
  /\ UNCHANGED <<bank, g_font_banks, pc, op, arg, ret>>

(* lines 662-700 for thread t, after the pre-pass *)
ThreadKoreanEnd(t) ==
  /\ pc[t] = "prepass"
  /\ orig[t].pending = <<>>
  /\ LET r == convert_game_to_utf8(m_encode_info, m_replace_info, m_version, m_passthrus,
                                   <<>>, arg[t].str \o <<0>>, TRUE)
         alone == [NoRet EXCEPT !.str = r.str]
     IN IF Raced(orig, t)
        THEN ret' \in {[ret EXCEPT ![t] = alone], [ret EXCEPT ![t] = [NoRet EXCEPT !.err = UNDEFINED]]}
        ELSE ret' = [ret EXCEPT ![t] = alone]
  /\ pc' = [pc EXCEPT ![t] = "done"]
  /\ UNCHANGED <<bank, seqs, g_font_banks, op, arg, orig>>

NextThreads ==
  \E t \in Threads :
    \/ ThreadForward(t)
    \/ ThreadReverse(t)
    \/ ThreadKoreanBegin(t)
    \/ ThreadFindSeq(t)
    \/ ThreadRecordSeq(t)
    \/ ThreadKoreanEnd(t)

SpecThreads == InitThreads /\ [][NextThreads]_vars

-----------------------------------------------------------------------------
(* convert_utf8_to_game one stage at a time, call after call on one bank:   *)
(* arg.str is the argument str, arg.flag is escape, arg.off the cursor i of *)
(* the escape loop, ret.str is newstr, orig.str is newstr before the stage  *)
(* that ran last and orig.flag tells that an earlier call threw.            *)

ForwardPieces ==
  {<<65>>, N_TILDE, TIL, <<QUOTE>>, <<BACKSLASH>>, <<CHAR_c>>, <<BACKSLASH, CHAR_c, CHAR_c>>}
ForwardInputs == Compose(ForwardPieces, MaxPieces)

(* line 587 *)
CallForward ==
  /\ pc = "ready"
  /\ \E str \in ForwardInputs, escape \in BOOLEAN :
       arg' = [NoArg EXCEPT !.str = str, !.flag = escape]
  /\ ret' = NoRet
  /\ op' = "convert_utf8_to_game"
  /\ pc' = "escape"
  /\ UNCHANGED <<bank, seqs, g_font_banks, orig>>

(* lines 591-629, one iteration that does not throw *)
EscapeStep ==
  /\ pc = "escape"
  /\ arg.flag
  /\ arg.off < Len(arg.str)
  /\ LET s == escape_step(arg.str, arg.off) IN
       /\ s.err = OK
       /\ ret' = [ret EXCEPT !.str = ret.str \o s.emit]
       /\ arg' = [arg EXCEPT !.off = s.next]
  /\ UNCHANGED <<bank, seqs, g_font_banks, pc, op, orig>>

(* Mutant: the text unescaped so far comes back with the error.             *)
EscapeThrow_partial ==
  /\ pc = "escape"
  /\ arg.flag
  /\ arg.off < Len(arg.str)
  /\ LET s == escape_step(arg.str, arg.off) IN
       /\ s.err # OK
       /\ ret' = [ret EXCEPT !.err = s.err]
  /\ pc' = "thrown"
  /\ UNCHANGED <<bank, seqs, g_font_banks, op, arg, orig>>

(* lines 598, 603, 608, 614, 623: the iteration throws *)
EscapeThrow ==
  /\ pc = "escape"
  /\ arg.flag
  /\ arg.off < Len(arg.str)
  /\ LET s == escape_step(arg.str, arg.off) IN
       /\ s.err # OK
       /\ ret' = [NoRet EXCEPT !.err = s.err]
  /\ pc' = "thrown"
  /\ UNCHANGED <<bank, seqs, g_font_banks, op, arg, orig>>

(* line 591: the loop condition fails *)
EscapeDone ==
  /\ pc = "escape"
  /\ arg.flag
  /\ ~(arg.off < Len(arg.str))
  /\ pc' = "unescaped"
  /\ UNCHANGED <<bank, seqs, g_font_banks, op, arg, ret, orig>>

(* lines 630-632: newstr = str *)
CopyInput ==
  /\ pc = "escape"
  /\ ~arg.flag
  /\ ret' = [ret EXCEPT !.str = arg.str]
  /\ pc' = "unescaped"
  /\ UNCHANGED <<bank, seqs, g_font_banks, op, arg, orig>>

(* line 634: replace_to_game(newstr) *)
ForwardFold ==
  /\ pc = "unescaped"
  /\ ret' = [ret EXCEPT !.str = replace_to_game(m_replace_info, ret.str)]
  /\ orig' = [orig EXCEPT !.str = ret.str]
  /\ op' = "replace_to_game"
  /\ pc' = "folded"
  /\ UNCHANGED <<bank, seqs, g_font_banks, arg>>

(* Mutant: the byte-encode stage runs over the text before the fold.        *)
ForwardEncode_unfolded ==
  /\ pc = "folded"
  /\ ret' = [ret EXCEPT !.str = encode_utf8_to_game(m_encode_info, orig.str)]
  /\ orig' = [orig EXCEPT !.str = ret.str]
  /\ op' = "convert_utf8_to_game"
  /\ pc' = "returned"
  /\ UNCHANGED <<bank, seqs, g_font_banks, arg>>

(* lines 635-636: encode_utf8_to_game(newstr); return newstr *)
ForwardEncode ==
  /\ pc = "folded"
  /\ ret' = [ret EXCEPT !.str = encode_utf8_to_game(m_encode_info, ret.str)]
  /\ orig' = [orig EXCEPT !.str = ret.str]
  /\ op' = "convert_utf8_to_game"
  /\ pc' = "returned"
  /\ UNCHANGED <<bank, seqs, g_font_banks, arg>>

(* The caller has the result, or has caught the exception, and goes on.     *)
ForwardOver ==
  /\ pc \in {"returned", "thrown"}
  /\ orig' = [NoArg EXCEPT !.flag = orig.flag \/ pc = "thrown"]
  /\ arg' = NoArg
  /\ ret' = NoRet
  /\ pc' = "ready"
  /\ UNCHANGED <<bank, seqs, g_font_banks, op>>

NextForward ==
  \/ Construct
  \/ CallForward
  \/ EscapeStep
  \/ EscapeThrow
  \/ EscapeDone
  \/ CopyInput
  \/ ForwardFold
  \/ ForwardEncode
  \/ ForwardOver

SpecForward == Init /\ [][NextForward]_vars

-----------------------------------------------------------------------------
(* convert_game_to_utf8 one stage at a time, with either value of korean:   *)
(* arg.str is the string `in` points to on entry, arg.tail what the buffer  *)
(* holds behind its terminator, arg.flag is korean and arg.off counts the   *)
(* calls of replace_to_utf8; orig.str is the buffer `in` points to at line  *)
(* 665 and ret.str is temp, then result.                                    *)

N_TILDE_BYTES == encode_utf8_to_game(s_encode_info_jak1, N_TILDE_GAME)

PipelinePieces ==
  {<<65>>, <<20>>, <<BACKSLASH>>, <<QUOTE>>, <<NEWLINE>>, <<CHAR_c>>, N_TILDE_BYTES}
PipelineInputs == Compose(PipelinePieces, MaxPieces)
PipelineKorean == Strings({MARK_LITERAL, MARK_ALT, PAYLOAD}, MaxKorean)

(* line 656 *)
CallReverse ==
  /\ pc = "ready"
  /\ \/ \E str \in PipelineInputs :
          arg' = [NoArg EXCEPT !.str = str]
     \/ \E str \in PipelineKorean, tail \in ScriptTails :
          arg' = [NoArg EXCEPT !.str = str, !.tail = tail, !.flag = TRUE]
  /\ ret' = NoRet
  /\ orig' = NoArg
  /\ op' = "convert_game_to_utf8"
  /\ pc' = "entered"
  /\ UNCHANGED <<bank, seqs, g_font_banks>>

(* lines 660-663: korean is true.  The pre-pass returns, or it faults at    *)
(* its first read behind the last byte of the caller's buffer when that     *)
(* memory is not mapped.                                                    *)
PrePass ==
  /\ pc = "entered"
  /\ arg.flag
  /\ LET mem == arg.str \o <<0>> \o arg.tail
         r == convert_korean_text_from_game(mem, seqs)
         fault == korean_over_read(mem, 0, seqs)
     IN \/ /\ orig' = [orig EXCEPT !.str = r.out]
           /\ seqs' = r.seqs
           /\ ret' = [ret EXCEPT !.oob = r.oob]
           /\ pc' = "decode"
        \/ /\ fault.reached
           /\ orig' = orig
           /\ seqs' = fault.seqs
           /\ ret' = [ret EXCEPT !.oob = TRUE]
           /\ pc' = "fault"
  /\ op' = "convert_korean_text_from_game"
  /\ UNCHANGED <<bank, g_font_banks, arg>>

(* line 660: korean is false *)
NoPrePass ==
  /\ pc = "entered"
  /\ ~arg.flag
  /\ orig' = [orig EXCEPT !.str = arg.str \o <<0>> \o arg.tail]
  /\ pc' = "decode"
  /\ UNCHANGED <<bank, seqs, g_font_banks, op, arg, ret>>

(* lines 665-676 *)
ByteDecode ==
  /\ pc = "decode"
  /\ ret' = [ret EXCEPT !.str = decode_loop(m_encode_info, m_version, m_passthrus,
                                            orig.str, 0, <<>>)]
  /\ op' = "decode"
  /\ pc' = "decoded"
  /\ UNCHANGED <<bank, seqs, g_font_banks, arg, orig>>

(* Mutant: no replace_to_utf8 before escape emission.                       *)
ExpandDecoded_skipped ==
  /\ pc = "decoded"
  /\ arg' = [arg EXCEPT !.off = arg.off + 1]
  /\ op' = "replace_to_utf8"
  /\ pc' = "expanded"
  /\ UNCHANGED <<bank, seqs, g_font_banks, ret, orig>>

(* line 678 *)
ExpandDecoded ==
  /\ pc = "decoded"
  /\ ret' = [ret EXCEPT !.str = replace_to_utf8(m_replace_info, ret.str)]
  /\ arg' = [arg EXCEPT !.off = arg.off + 1]
  /\ op' = "replace_to_utf8"
  /\ pc' = "expanded"
  /\ UNCHANGED <<bank, seqs, g_font_banks, orig>>

(* lines 679-698 *)
EscapeEmit ==
  /\ pc = "expanded"
  /\ ret' = [ret EXCEPT !.str = emit_loop(ret.str, 0, <<>>)]
  /\ op' = "emit"
  /\ pc' = "emitted"
  /\ UNCHANGED <<bank, seqs, g_font_banks, arg, orig>>

(* line 699 *)
ExpandEmitted ==
  /\ pc = "emitted"
  /\ ret' = [ret EXCEPT !.str = replace_to_utf8(m_replace_info, ret.str)]
  /\ arg' = [arg EXCEPT !.off = arg.off + 1]
  /\ op' = "convert_game_to_utf8"
  /\ pc' = "returned"
  /\ UNCHANGED <<bank, seqs, g_font_banks, orig>>

NextPipeline ==
  \/ Construct
  \/ CallReverse
  \/ PrePass
  \/ NoPrePass
  \/ ByteDecode
  \/ ExpandDecoded
  \/ EscapeEmit
  \/ ExpandEmitted

SpecPipeline == Init /\ [][NextPipeline]_vars

-----------------------------------------------------------------------------
(* convert_korean_text_from_game one run at a time: arg.str is the string   *)
(* `in` points to on entry, arg.tail what the buffer holds behind its       *)
(* terminator, arg.off the position of `in`, ret.str is out and ret.oob     *)
(* tells that a byte behind the terminator was read; orig.off and orig.str  *)
(* are the position and out before the run taken last.                      *)

PrePassBuffer == arg.str \o <<0>> \o arg.tail

(* line 313 *)
CallPrePass ==
  /\ pc = "ready"
  /\ \E str \in KoreanInputs, tail \in Tails :
       arg' = [NoArg EXCEPT !.str = str, !.tail = tail, !.flag = TRUE]
  /\ ret' = NoRet
  /\ orig' = NoArg
  /\ op' = "convert_korean_text_from_game"
  /\ pc' = "prepass"
  /\ UNCHANGED <<bank, seqs, g_font_banks>>

(* lines 316-321 *)
LiteralRun ==
  /\ pc = "prepass"
  /\ peek(PrePassBuffer, arg.off) = MARK_LITERAL
  /\ LET r == korean_literal_run(PrePassBuffer, arg.off + 1, ret.str,
                                 ret.oob \/ arg.off > terminator(PrePassBuffer)) IN
       /\ ret' = [ret EXCEPT !.str = r.out, !.oob = r.oob]
       /\ arg' = [arg EXCEPT !.off = r.p]
  /\ orig' = [NoArg EXCEPT !.str = ret.str, !.off = arg.off]
  /\ op' = "literal run"
  /\ UNCHANGED <<bank, seqs, g_font_banks, pc>>

(* lines 322-350 *)
GlyphRun ==
  /\ pc = "prepass"
  /\ peek(PrePassBuffer, arg.off) \notin {0, MARK_LITERAL}
  /\ LET r == korean_glyph_run(PrePassBuffer, arg.off + 2, 0, <<>>, ret.str,
                               ret.oob \/ arg.off + 1 > terminator(PrePassBuffer)) IN
       /\ ret' = [ret EXCEPT !.str = r.out, !.oob = r.oob]
       /\ arg' = [arg EXCEPT !.off = r.p]
       /\ seqs' = seqs_insert(seqs, r.seq)
  /\ orig' = [NoArg EXCEPT !.str = ret.str, !.off = arg.off]
  /\ op' = "glyph run"
  /\ UNCHANGED <<bank, g_font_banks, pc>>

(* lines 315, 352: *in is zero *)
PrePassReturn ==
  /\ pc = "prepass"
  /\ peek(PrePassBuffer, arg.off) = 0
  /\ ret' = [ret EXCEPT !.oob = ret.oob \/ arg.off > terminator(PrePassBuffer)]
  /\ op' = "convert_korean_text_from_game"
  /\ pc' = "returned"
  /\ UNCHANGED <<bank, seqs, g_font_banks, arg, orig>>

(* The loop iteration that begins at arg.off reads a byte behind the last   *)
(* byte of PrePassBuffer: every byte from arg.off to the one that ends the  *)
(* run is read (lines 318, 323-325, 329-344).                               *)
ReadsBehindBuffer ==
  LET mem == PrePassBuffer
      b == peek(mem, arg.off)
  IN /\ arg.off < Len(mem)
     /\ b # 0
     /\ IF b = MARK_LITERAL
        THEN korean_literal_run(mem, arg.off + 1, <<>>, FALSE).p >= Len(mem)
        ELSE korean_glyph_run(mem, arg.off + 2, 0, <<>>, <<>>, FALSE).p >= Len(mem)

(* lines 316-345: a read behind the caller's buffer has no defined outcome. *)
(* It may find zero bytes, and then the run is the step above; or it hits   *)
(* memory that is not mapped: the call faults at that read, inside the run  *)
(* and before lines 346-349, and never returns.                             *)
PrePassFault ==
  /\ pc = "prepass"
  /\ ReadsBehindBuffer
  /\ ret' = [ret EXCEPT !.oob = TRUE]
  /\ pc' = "fault"
  /\ UNCHANGED <<bank, seqs, g_font_banks, op, arg, orig>>

NextPrePass ==
  \/ Construct
  \/ CallPrePass
  \/ LiteralRun
  \/ GlyphRun
  \/ PrePassReturn
  \/ PrePassFault

SpecPrePass == Init /\ [][NextPrePass]_vars

-----------------------------------------------------------------------------
(* The tables of a bank behind their construction.  A bank holds pointers   *)
(* to file-level vectors (lines 360, 361), and g_font_bank_jak1_v2 is built *)
(* over the replace table of g_font_bank_jak1_v1 (lines 1056, 1290): its    *)
(* constructor sorts the vector the first bank points to once more.         *)

(* lines 1288-1291, 367-369: another bank constructed over m_replace_info *)
ConstructSharing ==
  /\ pc = "ready"
  /\ m_replace_info' \in sort_replace_info(m_replace_info)
  /\ op' = "GameTextFontBank"
  /\ arg' = NoArg
  /\ ret' = NoRet
  /\ orig' = NoArg
  /\ UNCHANGED <<pc, m_version, m_encode_info, m_passthrus, seqs, g_font_banks>>

NextTables ==
  \/ Construct
  \/ ConstructSharing
  \/ BeginReplaceToUtf8
  \/ BeginReplaceToGame
  \/ BeginEncodeUtf8ToGame
  \/ ReplaceToUtf8Step
  \/ ReplaceToGameStep
  \/ EncodeUtf8ToGameStep
  \/ StageReturn

SpecTables == InitResolve /\ [][NextTables]_vars

-----------------------------------------------------------------------------
(* Every loop of the two conversions, one iteration at a time, under the    *)
(* assumption that a call that can take a step does take one.  The match    *)
(* stages and the decode loop run on the tables of InitResolve, rules with  *)
(* an empty pattern included; the escape loop and the pre-pass read no      *)
(* table and are entered on the bank without rules.                         *)
DecodeInputs == Strings({1, 2}, MaxStr)

NoRules ==
  /\ m_encode_info = s_encode_info_null
  /\ m_replace_info = s_replace_info_null

(* line 587 *)
CallForwardNoRules ==
  /\ NoRules
  /\ CallForward

(* lines 656-664 with korean false *)
CallDecode ==
  /\ pc = "ready"
  /\ \E str \in DecodeInputs : arg' = [NoArg EXCEPT !.str = str]
  /\ ret' = NoRet
  /\ orig' = NoArg
  /\ op' = "convert_game_to_utf8"
  /\ pc' = "decode"
  /\ UNCHANGED <<bank, seqs, g_font_banks>>

(* line 313 *)
CallPrePassNoRules ==
  /\ NoRules
  /\ CallPrePass

(* line 635, behind the fold of line 634 *)
EncodeFolded ==
  /\ op = "replace_to_game"
  /\ ForwardEncode

(* lines 681-698, behind the fold of line 678 *)
EmitFolded ==
  /\ op = "replace_to_utf8"
  /\ EmitEscapes

(* The steps of a call that was entered: loop iterations, loop exits,       *)
(* stage calls and returns.                                                 *)
Running ==
  \/ ReplaceToUtf8Step
  \/ ReplaceToGameStep
  \/ EncodeUtf8ToGameStep
  \/ StageReturn
  \/ EscapeStep
  \/ EscapeThrow
  \/ EscapeDone
  \/ CopyInput
  \/ ForwardFold
  \/ EncodeFolded
  \/ DecodeStep
  \/ FoldDecoded
  \/ EmitFolded
  \/ ReturnFolded
  \/ LiteralRun
  \/ GlyphRun
  \/ PrePassReturn

NextTermination ==
  \/ Construct
  \/ BeginReplaceToUtf8
  \/ BeginReplaceToGame
  \/ BeginEncodeUtf8ToGame
  \/ CallForwardNoRules
  \/ CallDecode
  \/ CallPrePassNoRules
  \/ Running
  \/ PrePassFault

SpecTermination == InitResolve /\ [][NextTermination]_vars /\ WF_vars(Running)

-----------------------------------------------------------------------------
(* One call made twice, with other transcoding calls in between.  In this   *)
(* specification orig is the first call: its name, arguments and result.    *)
(* The arguments of convert_game_to_utf8 are the zero-terminated string and *)
(* the flag; what memory holds behind the terminator is not among them and  *)
(* may differ from one call to the next.                                    *)

PureTexts == {<<>>, TIL, <<BACKSLASH>>}
PureBytes == {<<65>>, <<20>>}
PureKorean == {<<MARK_LITERAL, PAYLOAD>>, <<PAYLOAD, PAYLOAD, PAYLOAD>>, <<PAYLOAD>>}
(* Two contents of the memory behind the terminator.                        *)
PureTails == {<<>>, <<PAYLOAD, 0>>}

(* A call that returns leaves pc at `returned`; a script-family call whose  *)
(* pre-pass reads behind the caller's buffer may fault instead.             *)
TranscodeForward(returned) ==
  /\ \E str \in PureTexts, escape \in BOOLEAN : DoConvertUtf8ToGame(str, escape)
  /\ pc' = returned
TranscodeReverse(returned) ==
  \E str \in PureBytes, tail \in PureTails : DoConvertGameToUtf8(str, tail, FALSE, returned)
TranscodeKorean(returned) ==
  \E str \in PureKorean, tail \in PureTails : DoConvertGameToUtf8(str, tail, TRUE, returned)

FirstCall ==
  /\ pc = "ready"
  /\ (TranscodeForward("first") \/ TranscodeReverse("first") \/ TranscodeKorean("first"))
  /\ orig' = [op |-> op', arg |-> arg', ret |-> ret']

OtherCall ==
  /\ pc = "first"
  /\ (TranscodeForward("first") \/ TranscodeReverse("first") \/ TranscodeKorean("first"))
  /\ UNCHANGED orig

RepeatCall ==
  /\ pc = "first"
  /\ IF orig.op = "convert_utf8_to_game"
     THEN DoConvertUtf8ToGame(orig.arg.str, orig.arg.flag) /\ pc' = "repeated"
     ELSE \E tail \in PureTails :
            DoConvertGameToUtf8(orig.arg.str, tail, orig.arg.flag, "repeated")
  /\ UNCHANGED orig

NextPurity ==
  \/ Construct
  \/ FirstCall
  \/ OtherCall
  \/ RepeatCall

SpecPurity == Init /\ [][NextPurity]_vars

-----------------------------------------------------------------------------
(* Properties.                                                              *)

IsPrefix(a, b) == Len(a) <= Len(b) /\ SubSeq(b, 1, Len(a)) = a

(* pat occurs in str, whole, from offset off on.                            *)
OccursAt(pat, str, off) ==
  off + Len(pat) <= Len(str) /\ SubSeq(str, off + 1, off + Len(pat)) = pat

CharResolvers == {"find_encode_to_game", "find_replace_to_utf8", "find_replace_to_game"}

TableOf(name) ==
  IF name \in {"find_encode_to_utf8", "find_encode_to_game"} THEN m_encode_info
  ELSE m_replace_info

(* The pattern the resolver `name` compares rule k by.                      *)
PatternOf(name, k) ==
  CASE name = "find_encode_to_utf8" -> m_encode_info[k].bytes
    [] name = "find_encode_to_game" -> m_encode_info[k].chars
    [] name = "find_replace_to_utf8" -> m_replace_info[k].from
    [] name = "find_replace_to_game" -> m_replace_info[k].to

Rules(name) == 1..Len(TableOf(name))

(* C2: find_encode_to_utf8 returns, among the rules with a non-empty byte   *)
(* sequence that occurs at the position, one whose byte sequence is the     *)
(* longest, whatever the lengths of the character sequences.                *)
C2_LongestByteSequence ==
  op = "find_encode_to_utf8" =>
    LET matching == {k \in Rules(op) : /\ Len(PatternOf(op, k)) > 0
                                       /\ OccursAt(PatternOf(op, k), arg.str, arg.off)}
    IN matching # {} =>
         /\ ret.rule \in matching
         /\ \A k \in matching : Len(PatternOf(op, k)) <= Len(PatternOf(op, ret.rule))

(* P, PQ are the patterns of rules i, j of the resolver that ran, P a       *)
(* proper prefix of PQ, and the input begins with PQ at the offset.         *)
PrefixPair(i, j) ==
  /\ Len(PatternOf(op, i)) > 0
  /\ Len(PatternOf(op, i)) < Len(PatternOf(op, j))
  /\ IsPrefix(PatternOf(op, i), PatternOf(op, j))
  /\ OccursAt(PatternOf(op, j), arg.str, arg.off)

(* Rule k's pattern extends rule j's and occurs, whole, at the offset.       *)
LongerMatch(k, j) ==
  /\ Len(PatternOf(op, k)) > Len(PatternOf(op, j))
  /\ IsPrefix(PatternOf(op, j), PatternOf(op, k))
  /\ OccursAt(PatternOf(op, k), arg.str, arg.off)

(* C3: when rules with patterns P and PQ are in the table, in either order, *)
(* and the input at the offset begins with PQ, a character resolver returns *)
(* the rule with pattern PQ, never the rule with pattern P; only a rule     *)
(* whose longer pattern occurs at the offset as well takes precedence.      *)
C3_LongerPatternWins ==
  op \in CharResolvers =>
    \A i, j \in Rules(op) :
      (PrefixPair(i, j) /\ \A k \in Rules(op) : ~LongerMatch(k, j)) =>
        /\ ret.rule # 0
        /\ PatternOf(op, ret.rule) = PatternOf(op, j)

(* C4: a character resolver returns a rule only if the rule's whole pattern *)
(* occurs in the input from the offset on.                                  *)
C4_WholePatternOccurs ==
  (op \in CharResolvers /\ ret.rule # 0) =>
    OccursAt(PatternOf(op, ret.rule), arg.str, arg.off)

(* The display strings a bank represents: concatenations of character       *)
(* sequences of encode rules, display substrings of replace rules and valid *)
(* literal characters.                                                      *)
RepresentablePieces ==
  {r.chars : r \in Range(m_encode_info)} \cup {r.to : r \in Range(m_replace_info)}
    \cup {<<ch>> : ch \in {c \in 0..255 : valid_char_range(m_version, m_passthrus, c)}}

RECURSIVE RepresentableFrom(_, _)
RepresentableFrom(s, i) ==
  \/ i = Len(s)
  \/ \E piece \in RepresentablePieces :
       /\ Len(piece) > 0
       /\ OccursAt(piece, s, i)
       /\ RepresentableFrom(s, i + Len(piece))

Representable(s) == RepresentableFrom(s, 0)

(* C1: for every bank and every representable string s,                     *)
(* convert_game_to_utf8(convert_utf8_to_game(s, false), false) returns s.   *)
C1_RoundTrip ==
  (pc = "chained" /\ op = "convert_game_to_utf8" /\ ~orig.flag /\ Representable(orig.str)) =>
    ret.str = orig.str

(* The positions of str, from 1, that hold a backslash or a quote.          *)
Backslashes(str) == {k \in DOMAIN str : str[k] = BACKSLASH}
Quotes(str) == {k \in DOMAIN str : str[k] = QUOTE}

FirstBackslash(str) == CHOOSE k \in Backslashes(str) : \A m \in Backslashes(str) : k <= m

IsHexDigit(ch) ==
  ch \in CHAR_0..CHAR_9 \/ ch \in CHAR_a..CHAR_f \/ ch \in CHAR_A..CHAR_F

HexValue(ch) ==
  CHOOSE d \in 0..15 :
    \/ d < 10 /\ ch = CHAR_0 + d
    \/ d >= 10 /\ (ch = CHAR_a + (d - 10) \/ ch = CHAR_A + (d - 10))

(* str is p \o "\cXX" \o q with p, q free of quotes and backslashes.        *)
HexShape(str) ==
  /\ Cardinality(Backslashes(str)) = 1
  /\ Quotes(str) = {}
  /\ LET k == FirstBackslash(str) IN
       /\ k + 3 <= Len(str)
       /\ str[k + 1] = CHAR_c
       /\ IsHexDigit(str[k + 2])
       /\ IsHexDigit(str[k + 3])

HexPrefix(str) == SubSeq(str, 1, FirstBackslash(str) - 1)
HexSuffix(str) == SubSeq(str, FirstBackslash(str) + 4, Len(str))
HexByte(str) ==
  16 * HexValue(str[FirstBackslash(str) + 2]) + HexValue(str[FirstBackslash(str) + 3])

ForwardCall == op = "convert_utf8_to_game" /\ arg.flag

(* What convert_utf8_to_game returns for str without escape interpretation. *)
Unescaped(str) == convert_utf8_to_game(m_encode_info, m_replace_info, str, FALSE).str

(* C5: convert_utf8_to_game(p + "\cXX" + q, true), p and q free of quotes   *)
(* and backslashes, returns the bytes of                                    *)
(* convert_utf8_to_game(p + byte(XX) + q, false): the escape is one raw     *)
(* byte and the character after the two digits is processed next.           *)
C5_EscapeRoundTrip ==
  (ForwardCall /\ HexShape(arg.str)) =>
    /\ ret.err = OK
    /\ ret.str = Unescaped(HexPrefix(arg.str) \o <<HexByte(arg.str)>> \o HexSuffix(arg.str))

(* C5 witness: an escape of a byte above 127 between a non-empty p and a    *)
(* non-empty q was converted.                                               *)
C5_Witness ==
  /\ ForwardCall
  /\ HexShape(arg.str)
  /\ HexPrefix(arg.str) # <<>>
  /\ HexSuffix(arg.str) # <<>>
  /\ HexByte(arg.str) > 127
  /\ ret.err = OK
  /\ ret.str = Unescaped(HexPrefix(arg.str) \o <<HexByte(arg.str)>> \o HexSuffix(arg.str))

(* C6: with escape = true, a string without a backslash is converted as it  *)
(* is without escape interpretation: every character is emitted once and in *)
(* order, a quote as one quote, and the character after it is processed.    *)
C6_NoCharacterDropped ==
  (ForwardCall /\ Backslashes(arg.str) = {}) =>
    /\ ret.err = OK
    /\ ret.str = Unescaped(arg.str)

(* The first backslash of str is the last character of str, or is followed  *)
(* by c and by fewer than two further characters.                           *)
TruncatedEscape(str) ==
  /\ Backslashes(str) # {}
  /\ LET k == FirstBackslash(str) IN
       \/ k = Len(str)
       \/ str[k + 1] = CHAR_c /\ k + 3 > Len(str)

(* C7: with escape = true, a string whose first backslash starts a          *)
(* truncated escape fails with the incomplete-escape error; a backslash-c   *)
(* with exactly two hex digits at the very end of the string is accepted.   *)
C7_IncompleteEscape ==
  ForwardCall =>
    /\ TruncatedEscape(arg.str) => ret.err = INCOMPLETE_ESCAPE
    /\ (HexShape(arg.str) /\ HexSuffix(arg.str) = <<>>) => ret.err = OK

(* The first backslash of str is followed by a character other than c, a    *)
(* quote and a backslash.                                                   *)
UnknownEscape(str) ==
  /\ Backslashes(str) # {}
  /\ LET k == FirstBackslash(str) IN
       k < Len(str) /\ str[k + 1] \notin {CHAR_c, QUOTE, BACKSLASH}

(* str is p, a backslash, a quote or a backslash, and q, with p and q free  *)
(* of quotes and backslashes.                                               *)
QuotingShape(str) ==
  /\ Backslashes(str) # {}
  /\ LET k == FirstBackslash(str) IN
       /\ k < Len(str)
       /\ str[k + 1] \in {QUOTE, BACKSLASH}
       /\ (Backslashes(str) \cup Quotes(str)) \subseteq {k, k + 1}

(* C8: with escape = true, a string whose first backslash is followed by a  *)
(* character other than c, a quote and a backslash fails with the           *)
(* invalid-escape error; a backslash followed by a quote or a backslash     *)
(* emits that one character and raises no error.                            *)
C8_InvalidEscape ==
  ForwardCall =>
    /\ UnknownEscape(arg.str) => ret.err = UNKNOWN_ESCAPE
    /\ QuotingShape(arg.str) =>
         LET k == FirstBackslash(arg.str) IN
           /\ ret.err = OK
           /\ ret.str = Unescaped(SubSeq(arg.str, 1, k - 1) \o SubSeq(arg.str, k + 1, Len(arg.str)))

(* The first backslash of str is followed by c and two characters that are  *)
(* not both hexadecimal digits.                                             *)
BadHexEscape(str) ==
  /\ Backslashes(str) # {}
  /\ LET k == FirstBackslash(str) IN
       /\ k + 3 <= Len(str)
       /\ str[k + 1] = CHAR_c
       /\ ~(IsHexDigit(str[k + 2]) /\ IsHexDigit(str[k + 3]))

(* C9: with escape = true, a string whose first backslash is followed by c  *)
(* and two characters that are not both hexadecimal digits fails with the   *)
(* invalid-hex error; a backslash-c followed by two hexadecimal digits      *)
(* never fails.                                                             *)
C9_InvalidHexEscape ==
  ForwardCall =>
    /\ BadHexEscape(arg.str) => ret.err = INVALID_HEX
    /\ HexShape(arg.str) => ret.err = OK

(* C10: valid_char_range(b) is true exactly when b is not a backslash and   *)
(* is an ASCII digit, an ASCII uppercase letter, a member of the            *)
(* passthrough set or, for JAK2 only, an ASCII lowercase letter.            *)
C10_ValidityPolicy ==
  op = "valid_char_range" =>
    LET b == arg.str[1] IN
      ret.ok <=> /\ b # BACKSLASH
                 /\ \/ b \in CHAR_0..CHAR_9
                    \/ b \in CHAR_A..CHAR_Z
                    \/ b \in m_passthrus
                    \/ m_version = JAK2 /\ b \in CHAR_a..CHAR_z

(* C10 witness: a backslash was rejected by a bank whose passthrough set    *)
(* holds the backslash.                                                     *)
C10_Witness ==
  /\ op = "valid_char_range"
  /\ arg.str = <<BACKSLASH>>
  /\ BACKSLASH \in m_passthrus
  /\ ~ret.ok

(* The stepwise run returns what convert_game_to_utf8 returns.              *)
StagesAgree ==
  pc = "returned" =>
    ret.str = convert_game_to_utf8(m_encode_info, m_replace_info, m_version, m_passthrus,
                                   seqs, arg.str \o <<0>>, FALSE).str

(* The byte the last decode step read; it is a valid literal of the version *)
(* or one of newline, tab, backslash, double quote.                         *)
DecodedByte == arg.str[orig.off + 1]

LowerHexDigits == <<48, 49, 50, 51, 52, 53, 54, 55, 56, 57, 97, 98, 99, 100, 101, 102>>

KeptLiteral(b) ==
  \/ b \in {NEWLINE, TAB, BACKSLASH, QUOTE}
  \/ /\ b # BACKSLASH
     /\ \/ b \in CHAR_0..CHAR_9
        \/ b \in CHAR_A..CHAR_Z
        \/ b \in m_passthrus
        \/ m_version = JAK2 /\ b \in CHAR_a..CHAR_z

GeneratedEscape(b) ==
  <<BACKSLASH, CHAR_c, LowerHexDigits[(b \div 16) + 1], LowerHexDigits[(b % 16) + 1]>>

(* A decode step at a byte no encode rule matches appends the byte itself   *)
(* when it is a valid literal, a newline, a tab, a backslash or a double    *)
(* quote, and otherwise backslash, c and the two lowercase hex digits of    *)
(* the byte; it advances the read position by one.                          *)
DecodeFallback ==
  (op = "decode" /\ ret.rule = 0) =>
    /\ arg.off = orig.off + 1
    /\ ret.str = orig.str \o (IF KeptLiteral(DecodedByte) THEN <<DecodedByte>>
                              ELSE GeneratedEscape(DecodedByte))

(* What byte 0x61 becomes by the fallback: itself in the version with       *)
(* lowercase, \c61 in a version without.                                    *)
LowercaseBoundary ==
  IF m_version = JAK2 THEN <<CHAR_a>> ELSE <<BACKSLASH, CHAR_c, CHAR_0 + 6, CHAR_0 + 1>>

(* The rules of the bank's encode table whose byte sequence is 0x61.        *)
RulesOfLowerA == {k \in DOMAIN m_encode_info : m_encode_info[k].bytes = <<CHAR_a>>}

(* C11 as stated: the decode fallback, and in particular byte 0x61 becomes  *)
(* \c61 for a version without lowercase and stays a for a version with      *)
(* lowercase.                                                               *)
C11_ValidityBoundary ==
  /\ DecodeFallback
  /\ (op = "decode" /\ DecodedByte = CHAR_a) => ret.str = orig.str \o LowercaseBoundary

(* C11, amended: the decode fallback; in particular byte 0x61, at which no  *)
(* encode rule matches, becomes \c61 for a version without lowercase and    *)
(* stays a for a version with lowercase, and where the encode table holds a *)
(* rule for 0x61, as the tables of jak1-v1 and jak1-v2 do and the table of  *)
(* jak2 does not, the byte becomes the display string of that rule.         *)
C11_DecodeFallback ==
  /\ DecodeFallback
  /\ (op = "decode" /\ DecodedByte = CHAR_a) =>
       IF RulesOfLowerA = {}
       THEN ret.rule = 0 /\ ret.str = orig.str \o LowercaseBoundary
       ELSE ret.rule \in RulesOfLowerA /\ ret.str = orig.str \o m_encode_info[ret.rule].chars
  /\ (m_encode_info # s_encode_info_null) => (RulesOfLowerA = {} <=> m_version = JAK2)

(* C11 witness: byte 0x61, which no rule of a jak1-v1 bank without rules    *)
(* matches and which is no valid literal of that version, became \c61.      *)
C11_Witness ==
  /\ op = "decode"
  /\ ret.rule = 0
  /\ m_version = JAK1_V1
  /\ DecodedByte = CHAR_a
  /\ ret.str = orig.str \o <<BACKSLASH, CHAR_c, CHAR_0 + 6, CHAR_0 + 1>>

(* What convert_game_to_utf8 returns for the game text str alone.           *)
Reversed(str) ==
  convert_game_to_utf8(m_encode_info, m_replace_info, m_version, m_passthrus,
                       seqs, str \o <<0>>, FALSE).str

(* C12: game bytes X E Y, E the encoded substring of a replace rule, are    *)
(* converted to X' D Y' with D the display substring of the rule, and       *)
(* converting X' D Y' back gives the bytes X E Y again.                     *)
C12_ReplacementPrecedence ==
  /\ (pc = "called" /\ op = "convert_game_to_utf8") =>
       \A r \in Composites, x \in Affixes, y \in Affixes :
         arg.str = x \o CompositeBytes(r) \o y =>
           ret.str = Reversed(x) \o r.to \o Reversed(y)
  /\ (pc = "chained" /\ op = "convert_utf8_to_game") =>
       /\ ret.err = OK
       /\ ret.str = orig.str

(* The number of consecutive backslashes of s that end just before          *)
(* position k.                                                              *)
RECURSIVE BackslashRun(_, _)
BackslashRun(s, k) ==
  IF k > 1 /\ s[k - 1] = BACKSLASH THEN 1 + BackslashRun(s, k - 1) ELSE 0

QuotedLiteralSafe(s) ==
  /\ \A k \in DOMAIN s : s[k] # NEWLINE /\ s[k] # TAB
  /\ \A k \in DOMAIN s : s[k] = QUOTE => BackslashRun(s, k) % 2 = 1

(* C13: the string convert_game_to_utf8 returns holds no raw newline and no *)
(* raw tab, and each double quote in it follows an odd number of            *)
(* consecutive backslashes.                                                 *)
C13_QuotedLiteralSafe ==
  pc = "returned" => QuotedLiteralSafe(ret.str)

(* C13 witness: game text with a backslash right before a double quote was  *)
(* returned by the jak2 bank as ~%, one backslash and the quote.            *)
C13_Witness ==
  /\ pc = "returned"
  /\ m_version = JAK2
  /\ \E k \in 1..(Len(arg.str) - 1) : arg.str[k] = BACKSLASH /\ arg.str[k + 1] = QUOTE
  /\ \E k \in 4..Len(ret.str) :
       /\ ret.str[k] = QUOTE
       /\ BackslashRun(ret.str, k) = 1
       /\ SubSeq(ret.str, k - 3, k - 2) = <<126, 37>>

RegisteredNames == {"jak1-v1", "jak1-v2", "jak2"}

(* The bank held is the one registered for version.                         *)
Holds(version) ==
  /\ m_version = version
  /\ g_font_banks[version] =
       [version |-> m_version, encode_info |-> m_encode_info,
        replace_info |-> m_replace_info, passthrus |-> m_passthrus]

LookupOutcome ==
  op = "get_font_bank" =>
    /\ arg.str \notin RegisteredNames => ret.err = UNKNOWN_VERSION
    /\ arg.str = "jak1-v1" => ret.err = OK /\ Holds(JAK1_V1)
    /\ arg.str = "jak1-v2" => ret.err = OK /\ Holds(JAK1_V2)
    /\ arg.str = "jak2" => ret.err = OK /\ Holds(JAK2)

LookupKeeps ==
  op' = "get_font_bank" =>
    /\ g_font_banks' = g_font_banks
    /\ seqs' = seqs
    /\ ret'.err # OK => bank' = bank

(* C14: get_font_bank(name) fails with the unknown-version error for every  *)
(* name that is not registered and then leaves the registry and every bank  *)
(* as they were; for a registered name it returns the bank registered for   *)
(* the version the name maps to.                                            *)
C14_VersionResolution == []LookupOutcome /\ [][LookupKeeps]_vars

(* C14 witness: a lookup of an unknown name failed after a bank had been    *)
(* obtained, which is still held.                                           *)
C14_Witness ==
  /\ op = "get_font_bank"
  /\ arg.str = "not-a-real-version"
  /\ ret.err = UNKNOWN_VERSION
  /\ Holds(JAK2)

Transcoders == {"convert_utf8_to_game", "convert_game_to_utf8"}

EmptyOutcome ==
  (op \in Transcoders /\ arg.str = <<>>) =>
    /\ ret.err = OK
    /\ ret.str = <<>>

EmptyKeepsSeqs ==
  (op' \in Transcoders /\ arg'.str = <<>>) => seqs' = seqs

(* C15: convert_utf8_to_game on the empty string, with and without escape   *)
(* interpretation, and convert_game_to_utf8 on an empty buffer, with and    *)
(* without the script pre-pass, return the empty string, raise no error and *)
(* leave seqs as it was.                                                    *)
C15_EmptyInput == []EmptyOutcome /\ [][EmptyKeepsSeqs]_vars

(* C15 witness: the script pre-pass ran on an empty buffer that is followed *)
(* by other bytes of the caller.                                            *)
C15_Witness ==
  /\ op = "convert_game_to_utf8"
  /\ arg.flag
  /\ arg.str = <<>>
  /\ arg.tail # <<>>
  /\ ret.str = <<>>
  /\ seqs = <<>>

(* What the call thread t made returns when it runs alone.                  *)
Alone(t) ==
  IF op[t] = "convert_utf8_to_game"
  THEN LET r == convert_utf8_to_game(m_encode_info, m_replace_info, arg[t].str, arg[t].flag)
       IN [NoRet EXCEPT !.err = r.err, !.str = r.str]
  ELSE [NoRet EXCEPT !.str =
          convert_game_to_utf8(m_encode_info, m_replace_info, m_version, m_passthrus,
                               <<>>, arg[t].str \o <<0>>, arg[t].flag).str]

ResultsAsAlone == \A t \in Threads : pc[t] = "done" => ret[t] = Alone(t)

NoSharedWrite == seqs' = seqs /\ bank' = bank

(* C16: in every interleaving of concurrent forward and reverse calls no    *)
(* call writes state shared between the threads, and each call returns what *)
(* it returns when run alone.                                               *)
C16_ThreadSafety == []ResultsAsAlone /\ [][NoSharedWrite]_vars

SameOutput == pc = "repeated" => ret.err = orig.ret.err /\ ret.str = orig.ret.str

TablesKept == pc # "new" => bank' = bank

(* The first call read nothing behind the terminator of its input.          *)
WithinInput ==
  orig.op = "convert_game_to_utf8" /\ orig.arg.flag
    => ~convert_korean_text_from_game(orig.arg.str \o <<0>>, <<>>).oob

(* Sanity: a call that stays inside its input returns the same output when  *)
(* it is made again, whatever calls came in between.                        *)
SameOutputWithinInput == pc = "repeated" /\ WithinInput => SameOutput

(* C17: a call of convert_utf8_to_game or convert_game_to_utf8 made twice   *)
(* with the same arguments returns the same output, whatever transcoding    *)
(* calls run in between, and no transcoding call changes the encode table,  *)
(* the replace table or the passthrough set.                                *)
C17_Purity == []SameOutput /\ [][TablesKept]_vars

Resolvers == CharResolvers \cup {"find_encode_to_utf8"}

(* The rules whose non-empty pattern occurs, whole, at the offset, and      *)
(* those of them whose pattern is longest.                                  *)
Matching == {k \in Rules(op) : /\ Len(PatternOf(op, k)) > 0
                               /\ OccursAt(PatternOf(op, k), arg.str, arg.off)}
Longest == {k \in Matching : \A j \in Matching : Len(PatternOf(op, j)) <= Len(PatternOf(op, k))}

FirstOf(ks) == CHOOSE k \in ks : \A j \in ks : k <= j

TieBreak(names) ==
  (op \in names /\ Cardinality(Longest) > 1) => ret.rule = FirstOf(Longest)

(* Sanity: the two replace resolvers break ties by table order.             *)
ReplaceTieBreak == TieBreak({"find_replace_to_utf8", "find_replace_to_game"})

(* C18: when several rules whose patterns have the same, maximal length     *)
(* match at the offset, each of the four resolvers returns the one that     *)
(* comes first in the table.                                                *)
C18_TieBreak == TieBreak(Resolvers)

MatchStages == {"replace_to_utf8", "replace_to_game", "encode_utf8_to_game"}

(* Sanity: the iterations build what the stage returns.                     *)
StagesReturnLoops ==
  pc = "returned" =>
    ret.str = CASE op = "replace_to_utf8" -> replace_to_utf8(m_replace_info, arg.str)
                [] op = "replace_to_game" -> replace_to_game(m_replace_info, arg.str)
                [] op = "encode_utf8_to_game" -> encode_utf8_to_game(m_encode_info, arg.str)

CursorInside ==
  /\ (pc = "stage" /\ op \in MatchStages) => arg.off <= Len(arg.str)
  /\ (pc = "returned" /\ op \in MatchStages) => arg.off = Len(arg.str)

CursorAdvances ==
  (pc = "stage" /\ pc' = "stage" /\ op \in MatchStages) => arg'.off >= arg.off + 1

(* Sanity: the two replace stages keep the cursor inside the input.         *)
ReplaceCursorInside == op \in {"replace_to_utf8", "replace_to_game"} => CursorInside

(* C19: in replace_to_game, encode_utf8_to_game and replace_to_utf8 every   *)
(* iteration moves the cursor forward by at least one, the cursor never     *)
(* moves beyond the end of the input, and it equals the length of the input *)
(* when the loop exits.                                                     *)
C19_CursorAccounting == []CursorInside /\ [][CursorAdvances]_vars

(* No byte of the input takes the fallback of line 673: the decoded text    *)
(* holds no generated escape.                                               *)
NoGeneratedEscape == \A k \in DOMAIN arg.str : KeptLiteral(arg.str[k])

(* What escape emission is to write for one character of the decoded text   *)
(* that is not part of a generated escape.                                  *)
EscapeOf(ch) ==
  CASE ch = BACKSLASH -> <<BACKSLASH, BACKSLASH>>
    [] ch = NEWLINE -> <<BACKSLASH, CHAR_n>>
    [] ch = TAB -> <<BACKSLASH, CHAR_t>>
    [] ch = QUOTE -> <<BACKSLASH, QUOTE>>
    [] OTHER -> <<ch>>

Escaped(text) == Concat([k \in DOMAIN text |-> EscapeOf(text[k])])

(* Sanity: a backslash that is not followed by c is emitted twice.          *)
BackslashDoubledUnlessC ==
  (pc = "emitted" /\ NoGeneratedEscape
     /\ \A k \in DOMAIN orig.str :
          orig.str[k] = BACKSLASH => (k = Len(orig.str) \/ orig.str[k + 1] # CHAR_c)) =>
    ret.str = Escaped(orig.str)

(* C20: escape emission writes two backslashes for every backslash of the   *)
(* decoded text that does not begin an escape generated by the decode       *)
(* fallback, a literal backslash followed by a literal c included.          *)
C20_BackslashEmission ==
  (pc = "emitted" /\ NoGeneratedEscape) => ret.str = Escaped(orig.str)

(* Sanity: the stages taken one at a time return what the call returns.     *)
ForwardStagesAgree ==
  pc \in {"returned", "thrown"} =>
    LET r == convert_utf8_to_game(m_encode_info, m_replace_info, arg.str, arg.flag) IN
      ret.err = r.err /\ ret.str = r.str

(* The text the match stages start from: what the escape loop made of str   *)
(* when escape is true, str itself when it is false.                        *)
EscapeInterpreted == IF arg.flag THEN unescape(arg.str, TRUE).str ELSE arg.str

(* C21: convert_utf8_to_game(s, escape) returns the byte encoding of the    *)
(* replacement fold of u, u being the escape-interpreted s when escape is   *)
(* true and s when it is false; the fold runs over all of u and the byte    *)
(* encoding over all the fold wrote.                                        *)
C21_ForwardOrder ==
  /\ pc = "folded" => /\ orig.str = EscapeInterpreted
                      /\ ret.str = replace_to_game(m_replace_info, EscapeInterpreted)
  /\ pc = "returned" =>
       ret.str = encode_utf8_to_game(m_encode_info,
                                     replace_to_game(m_replace_info, EscapeInterpreted))

(* C21 witness: the glyph name <TIL> written by the rule for U+00D1 was     *)
(* encoded as byte 0x14 in the same call.                                   *)
C21_Witness ==
  /\ pc = "returned"
  /\ arg.str = N_TILDE
  /\ \E k \in DOMAIN ret.str : ret.str[k] = 20
  /\ Len(ret.str) = Len(N_TILDE_GAME) - Len(TIL) + 1

(* Sanity: the stages taken one at a time return what the call returns.     *)
PipelineStagesAgree ==
  pc = "returned" =>
    ret.str = convert_game_to_utf8(m_encode_info, m_replace_info, m_version, m_passthrus,
                                   <<>>, arg.str \o <<0>> \o arg.tail, arg.flag).str

ByteDecoded(b) == decode_loop(m_encode_info, m_version, m_passthrus, b, 0, <<>>)
Expanded(text) == replace_to_utf8(m_replace_info, text)
EscapeEmitted(text) == emit_loop(text, 0, <<>>)

(* The stages that have run leave seqs alone unless korean is set.         *)
PrePassOnlyIfKorean == (pc # "new" /\ ~arg.flag) => seqs' = seqs

(* C22: convert_game_to_utf8(b, korean) returns expand(escape_emit(expand(  *)
(* byte_decode(b')))), b' being the output of the pre-pass when korean is   *)
(* true and b when it is false; replace_to_utf8 has then run exactly twice, *)
(* and without the flag the pre-pass does not run.                          *)
PipelineOutcome ==
  /\ (pc \in {"decode", "decoded", "expanded", "emitted", "returned"} /\ ~arg.flag) =>
       /\ orig.str = arg.str \o <<0>> \o arg.tail
       /\ seqs = <<>>
  /\ (pc \in {"decode", "decoded", "expanded", "emitted", "returned"} /\ arg.flag) =>
       orig.str = convert_korean_text_from_game(arg.str \o <<0>> \o arg.tail, <<>>).out
  /\ pc = "returned" =>
       /\ ret.str = Expanded(EscapeEmitted(Expanded(ByteDecoded(orig.str))))
       /\ arg.off = 2

C22_ReverseOrder == []PipelineOutcome /\ [][PrePassOnlyIfKorean]_vars

(* C22 witness: a jak2 call returned ~% for two backslash bytes, which the  *)
(* first replace_to_utf8 folded before escape emission could double them.   *)
C22_Witness ==
  /\ pc = "returned"
  /\ arg.str = <<BACKSLASH, BACKSLASH>>
  /\ ret.str = <<126, 37>>

(* The replace rules whose non-empty display substring occurs in the input  *)
(* of the stage at the cursor, and the longest of them.                     *)
FoldMatching ==
  {k \in DOMAIN m_replace_info : /\ Len(m_replace_info[k].to) > 0
                                 /\ OccursAt(m_replace_info[k].to, arg.str, arg.off)}
FoldLongest ==
  {k \in FoldMatching :
     \A j \in FoldMatching : Len(m_replace_info[j].to) <= Len(m_replace_info[k].to)}

FoldStep ==
  (pc = "stage" /\ pc' = "stage" /\ op = "replace_to_game") =>
    /\ arg'.str = arg.str
    /\ IF FoldMatching = {}
       THEN /\ ret'.str = Append(ret.str, arg.str[arg.off + 1])
            /\ arg'.off = arg.off + 1
       ELSE \E k \in FoldLongest :
              /\ ret'.str = ret.str \o m_replace_info[k].from
              /\ arg'.off = arg.off + Len(m_replace_info[k].to)

(* C23: every iteration of replace_to_game takes the longest replace rule   *)
(* whose display substring occurs at the cursor, appends the rule's encoded *)
(* substring and moves the cursor right behind the matched text, or copies  *)
(* one character when no rule matches; it scans the input only, never the   *)
(* text it wrote.                                                           *)
C23_FoldOnePass == [][FoldStep]_vars

(* C23 witness: a rule was applied where a rule that comes earlier in the   *)
(* table and has a shorter display substring matched too.                   *)
C23_Witness ==
  /\ pc = "stage"
  /\ op = "replace_to_game"
  /\ ret.rule # 0
  /\ arg.off = orig.off + Len(m_replace_info[ret.rule].to)
  /\ \E j \in DOMAIN m_replace_info :
       /\ Len(m_replace_info[j].to) > 0
       /\ Len(m_replace_info[j].to) < Len(m_replace_info[ret.rule].to)
       /\ OccursAt(m_replace_info[j].to, arg.str, orig.off)
       /\ j < ret.rule

EscapeErrors == {INCOMPLETE_ESCAPE, INVALID_HEX, INVALID_ESCAPE_VALUE, UNKNOWN_ESCAPE}

(* A call that threw returned nothing, and a call that returned, after      *)
(* earlier calls threw or not, returned what the call returns on its own.   *)
AbortOutcome ==
  /\ pc = "thrown" => /\ ret.err \in EscapeErrors
                      /\ ret.str = <<>>
                      /\ op = "convert_utf8_to_game"
  /\ pc = "returned" =>
       LET r == convert_utf8_to_game(m_encode_info, m_replace_info, arg.str, arg.flag) IN
         ret.err = OK /\ r.err = OK /\ ret.str = r.str

(* The step that throws and the step after it run no stage and change       *)
(* neither the tables nor seqs.                                             *)
AbortStep ==
  (pc = "thrown" \/ pc' = "thrown") =>
    /\ bank' = bank
    /\ seqs' = seqs
    /\ pc' \in {"thrown", "ready"}

(* C24: when the escape loop throws, convert_utf8_to_game returns no text,  *)
(* replace_to_game and encode_utf8_to_game do not run for the string, the   *)
(* tables and seqs stay as they are, and a later call on a valid string     *)
(* returns its normal result.                                               *)
C24_ErrorsAbort == []AbortOutcome /\ [][AbortStep]_vars

(* C24 witness: after a call that threw with part of the text unescaped,    *)
(* a call on a valid string returned bytes.                                 *)
C24_Witness ==
  /\ pc = "returned"
  /\ orig.flag
  /\ arg.flag
  /\ ret.str # <<>>

(* Sanity: the runs taken one at a time return what the pre-pass returns.   *)
PrePassRunsAgree ==
  (pc = "returned" /\ op = "convert_korean_text_from_game") =>
    LET r == convert_korean_text_from_game(PrePassBuffer, <<>>) IN
      ret.str = r.out /\ ret.oob = r.oob /\ seqs = r.seqs

(* The sub-codes the buffer holds from position p to the next byte 3, 4 or  *)
(* 0: a byte, or marker 5 and the byte behind it.                           *)
RECURSIVE SubCodes(_, _)
SubCodes(mem, p) ==
  IF peek(mem, p) \in {0, 3, 4} THEN <<>>
  ELSE IF peek(mem, p) = 5
       THEN <<[marked |-> TRUE, payload |-> peek(mem, p + 1)]>> \o SubCodes(mem, p + 2)
       ELSE <<[marked |-> FALSE, payload |-> peek(mem, p)]>> \o SubCodes(mem, p + 1)

PairOf(sub) == IF sub.marked THEN <<1, sub.payload>> ELSE <<3, sub.payload>>
SizeOf(sub) == IF sub.marked THEN 2 ELSE 1

RECURSIVE SumSizes(_)
SumSizes(subs) == IF subs = <<>> THEN 0 ELSE SizeOf(Head(subs)) + SumSizes(Tail(subs))

(* C25: a run that starts at a byte other than marker 3 passes over that    *)
(* byte and the length byte without output and then writes, for each        *)
(* sub-code up to the next byte 3, 4 or 0, the two bytes (1, payload) when  *)
(* marker 5 precedes the payload and (3, payload) otherwise, in order.      *)
C25_GlyphBranch ==
  op = "glyph run" =>
    LET subs == SubCodes(PrePassBuffer, orig.off + 2) IN
      /\ ret.str = orig.str \o Concat([k \in DOMAIN subs |-> PairOf(subs[k])])
      /\ Len(ret.str) = Len(orig.str) + 2 * Len(subs)
      /\ arg.off = orig.off + 2 + SumSizes(subs)

(* C25 witness: a run holding one sub-code behind marker 5, read inside the *)
(* input, was written as the pair (1, payload).                            *)
C25_Witness ==
  /\ op = "glyph run"
  /\ ~ret.oob
  /\ Len(orig.str) = 0
  /\ \E p \in 1..255 : /\ peek(PrePassBuffer, orig.off + 2) = MARK_ALT
                        /\ peek(PrePassBuffer, orig.off + 3) = p
                        /\ ret.str = <<TIER_ALT, p>>

-----------------------------------------------------------------------------
(* The bytes of memory from p up to, not including, the next 3, 4 or 0.     *)
RECURSIVE LiteralBytes(_, _)
LiteralBytes(mem, p) ==
  IF peek(mem, p) \in {0, MARK_LITERAL, MARK_END} THEN <<>>
  ELSE <<peek(mem, p)>> \o LiteralBytes(mem, p + 1)

LiteralCopied ==
  op = "literal run" =>
    LET run == LiteralBytes(PrePassBuffer, orig.off + 1) IN
      /\ peek(PrePassBuffer, orig.off) = MARK_LITERAL
      /\ ret.str = orig.str \o run
      /\ \A k \in 1..Len(run) : run[k] \notin {MARK_LITERAL, MARK_END}
      /\ arg.off = orig.off + 1 + Len(run)
      /\ peek(PrePassBuffer, arg.off) \in {0, MARK_LITERAL, MARK_END}

LiteralKeepsSeqs == op' = "literal run" => seqs' = seqs

(* C26: a marker byte 3 starts a literal run; the bytes behind it, up to    *)
(* but not including the next byte equal to 3, 4 or the terminator, are     *)
(* appended unchanged and in order to the output, the markers are not       *)
(* emitted, and a literal run leaves the accumulator seqs as it was.        *)
C26_LiteralBranch == []LiteralCopied /\ [][LiteralKeepsSeqs]_vars

(* C26 witness: a literal run of two bytes ended by the byte 4 wrote the two *)
(* bytes alone, read inside the input.                                      *)
C26_Witness ==
  /\ op = "literal run"
  /\ ~ret.oob
  /\ LiteralBytes(PrePassBuffer, orig.off + 1) = <<65, 97>>
  /\ peek(PrePassBuffer, arg.off) = MARK_END
  /\ ret.str = <<65, 97>>

-----------------------------------------------------------------------------
Entered == pc \notin {"new", "ready", "returned", "thrown", "fault"}

Left == pc \in {"returned", "thrown"}

(* A step that stays in a loop moves the cursor of the loop forward.        *)
IterationAdvances ==
  (pc' = pc /\ pc \in {"stage", "escape", "decode", "prepass"}) => arg'.off > arg.off

(* Sanity: the first half of C27 holds on its own.                          *)
LoopsAdvance == [][IterationAdvances]_vars

(* Sanity: every call made without the pre-pass comes to its end.           *)
TerminatesWithoutPrePass == (Entered /\ pc # "prepass") ~> Left

(* Sanity: the pre-pass comes to its end or reads behind the terminator.    *)
PrePassTerminatesWithinInput == (pc = "prepass") ~> (pc = "returned" \/ ret.oob)

(* C27: every iteration of every loop moves its cursor forward, and every   *)
(* call of a conversion or of one of its stages that was entered, with or   *)
(* without the script pre-pass, comes to its end.                           *)
C27_Termination == [][IterationAdvances]_vars /\ (Entered ~> Left)

-----------------------------------------------------------------------------
(* How often rule r stands in table t.                                      *)
Occurrences(t, r) == Cardinality({i \in DOMAIN t : t[i] = r})

SameRules(t, u) ==
  /\ Len(t) = Len(u)
  /\ \A r \in Range(t) \cup Range(u) : Occurrences(t, r) = Occurrences(u, r)

TablesOrdered ==
  pc # "new" =>
    /\ \A i, j \in DOMAIN m_encode_info :
         i < j => Len(m_encode_info[i].bytes) >= Len(m_encode_info[j].bytes)
    /\ \A i, j \in DOMAIN m_replace_info :
         i < j => Len(m_replace_info[i].from) >= Len(m_replace_info[j].from)

SortKeepsRules ==
  /\ SameRules(m_encode_info, m_encode_info')
  /\ SameRules(m_replace_info, m_replace_info')

TablesFrozen ==
  pc # "new" => m_encode_info' = m_encode_info /\ m_replace_info' = m_replace_info

(* Sanity: the tables stay ordered and hold the same rules in every step.   *)
TablesStayOrdered == []TablesOrdered /\ [][SortKeepsRules]_vars

(* Sanity: the stages change no table.                                      *)
StagesKeepTables ==
  [][op' # "GameTextFontBank" => m_encode_info' = m_encode_info /\ m_replace_info' = m_replace_info]_vars

(* C28: once the bank is constructed its encode table is in non-increasing  *)
(* order of byte-sequence length and its replace table in non-increasing    *)
(* order of encoded-substring length, the sort keeps the rules, and no step *)
(* behind the construction changes the order or the content of a table.     *)
C28_TableOrder == []TablesOrdered /\ [][SortKeepsRules /\ TablesFrozen]_vars

-----------------------------------------------------------------------------
(* Sanity: a buffer that ends right behind the length byte of a glyph run   *)
(* is read up to its terminator and no further.                             *)
EndsBehindLength ==
  (pc = "returned" /\ op = "convert_korean_text_from_game"
     /\ arg.str \in {<<65, 65>>, <<MARK_END, 97>>, <<MARK_LITERAL, 65, MARK_END, 65>>})
    => ~ret.oob

(* C30: convert_korean_text_from_game reads no byte behind the zero         *)
(* terminator of its buffer, whatever byte the buffer ends with.            *)
C30_StaysInside == ~ret.oob

-----------------------------------------------------------------------------
(* The last step passed the display text of the game bytes orig.str,        *)
(* converted without the pre-pass, to convert_utf8_to_game with escape.     *)
ReverseThenForward == pc = "chained" /\ op = "convert_utf8_to_game" /\ ~orig.flag

(* Sanity: game bytes among A and the double quote come back.               *)
QuotesComeBack ==
  (ReverseThenForward /\ \A k \in DOMAIN orig.str : orig.str[k] \in {65, QUOTE})
    => ret.err = OK /\ ret.str = orig.str

(* C29: for every string b of game bytes, newline, quote and backslash      *)
(* bytes included, convert_utf8_to_game(convert_game_to_utf8(b), true)      *)
(* raises no error and returns b.                                           *)
C29_ReverseThenForward == ReverseThenForward => (ret.err = OK /\ ret.str = orig.str)

====
